---- MODULE Spec2Model ----
(***************************************************************************)
(* Model of OCR_OR.py: the interleaved image enumerator, the token         *)
(* extractor and the early-stopping run_pipeline controller; and of        *)
(* T4_shopee_model_fallback__v5.py: fallback_model_via_AB, which calls     *)
(* run_pipeline and reads its result file.                                 *)
(*                                                                         *)
(* A Python str is a sequence of one-character strings.  A text file is    *)
(* the character sequence stored on disk; WriteText / ReadText are the     *)
(* newline translations of Python's text mode on the platform the module   *)
(* targets (Windows: the module loads Psapi.dll and Kernel32.dll).         *)
(***************************************************************************)
EXTENDS Integers, Sequences, FiniteSets, TLC

VARIABLES
    pc,                 \* position of the modelled call
    input_dir,          \* os.listdir(input_dir): set of file names
    input_dir_exists,   \* os.path.isdir(input_dir)
    stale,              \* the output directory held files of an earlier run
    images,             \* run_pipeline: images (scan order)
    idx,                \* run_pipeline: number of images visited so far
    merged_so_far,      \* run_pipeline: in-memory merged text
    model_found_early,  \* run_pipeline: None (<<>>) or early_models[0]
    failed,             \* run_pipeline: list of failed file names
    peak_py_mb_overall, \* run_pipeline: maximum of the traced peaks
    tracing,            \* tracemalloc session is running
    reader,             \* easyocr.Reader instances created so far
    f_merged,           \* merged_ocr.txt
    f_csv,              \* images_ocr.csv (rows)
    f_log,              \* run.log (lines)
    f_model,            \* models_found.txt
    f_failed,           \* failed_slices.txt
    f_score,            \* score.log
    last,               \* calls made for the image visited last
    model_writes,       \* history: every write of models_found.txt
    blocks_written,     \* history: every block passed to fmerged.write
    gt,                 \* run_pipeline: gt argument
    output_dir_exists,  \* the output directory exists
    text_in,            \* argument of a direct extract_models_from_text call
    tokens_out,         \* its result
    seq_in,             \* argument of a direct _interleave_ends call
    seq_out,            \* its result
    fb_pc,              \* fallback_model_via_AB: position
    fb,                 \* fallback_model_via_AB: arguments, module state, exit taken
    ret,                \* fallback_model_via_AB: value returned
    run,                \* history: 1 in a first run, 2 in its repetition
    trace,              \* history: one entry per image visited in this run
    run1,               \* history: what the first run left behind
    fix_in,             \* argument of a direct _confusion_whitelist_fix call
    fix_out,            \* its result
    api_pc,             \* _api_fetch_with_retry: position
    api                 \* _api_fetch_with_retry: arguments, loop state, calls made

vars == <<pc, input_dir, input_dir_exists, stale, images, idx, merged_so_far, model_found_early,
          failed, peak_py_mb_overall, tracing, reader, f_merged, f_csv, f_log,
          f_model, f_failed, f_score, last, model_writes, blocks_written,
          gt, output_dir_exists, text_in, tokens_out, seq_in, seq_out,
          fb_pc, fb, ret, run, trace, run1, fix_in, fix_out, api_pc, api>>

(***************************************************************************)
(* Characters                                                              *)
(***************************************************************************)
UpperLetters == <<"A","B","C","D","E","F","G","H","I","J","K","L","M",
                  "N","O","P","Q","R","S","T","U","V","W","X","Y","Z">>
LowerLetters == <<"a","b","c","d","e","f","g","h","i","j","k","l","m",
                  "n","o","p","q","r","s","t","u","v","w","x","y","z">>
Digits == {"0","1","2","3","4","5","6","7","8","9"}
\* characters outside ASCII are written as their code point: "u578b" is U+578B
CJK == {"u5546","u54c1","u578b","u865f","u627e","u5230","u7684","u672a","u7121","u67e5"}
FullwidthColon == "uff1a"
Degree == "u00b0"

Range(s) == {s[i] : i \in DOMAIN s}

UpperSet == Range(UpperLetters)
LowerSet == Range(LowerLetters)
IsUpper(c) == c \in UpperSet
IsLower(c) == c \in LowerSet

ToLower == [c \in UpperSet |-> LowerLetters[CHOOSE i \in 1..26 : UpperLetters[i] = c]]
ToUpper == [c \in LowerSet |-> UpperLetters[CHOOSE i \in 1..26 : LowerLetters[i] = c]]

\* str.lower() / str.upper() on one character
LowerChar(c) == IF IsUpper(c) THEN ToLower[c] ELSE c
UpperChar(c) == IF IsLower(c) THEN ToUpper[c] ELSE c

LowerStr(s) == [i \in DOMAIN s |-> LowerChar(s[i])]
UpperStr(s) == [i \in DOMAIN s |-> UpperChar(s[i])]

\* code point order of the characters that occur in file names
CodeOrder == <<".","0","1","2","3","4","5","6","7","8","9">> \o UpperLetters \o <<"_">> \o LowerLetters
OrdOf == [c \in Range(CodeOrder) |-> CHOOSE i \in DOMAIN CodeOrder : CodeOrder[i] = c]
Ord(c) == OrdOf[c]

\* Python's < on str
RECURSIVE StrLess(_, _)
StrLess(a, b) ==
    IF a = <<>> THEN b # <<>>
    ELSE IF b = <<>> THEN FALSE
    ELSE IF a[1] = b[1] THEN StrLess(Tail(a), Tail(b))
    ELSE Ord(a[1]) < Ord(b[1])

\* str.endswith(suffix)
EndsWith(s, suf) ==
    /\ Len(suf) <= Len(s)
    /\ SubSeq(s, Len(s) - Len(suf) + 1, Len(s)) = suf

\* regex \w (str pattern): letters, digits, underscore, CJK ideographs
IsWordChar(c) == IsUpper(c) \/ IsLower(c) \/ c \in Digits \/ c = "_" \/ c \in CJK

\* str.strip(): whitespace removed at both ends
IsSpace(c) == c \in {" ", "\n", "\r", "\t"}
RECURSIVE LStrip(_)
LStrip(s) == IF s # <<>> /\ IsSpace(s[1]) THEN LStrip(Tail(s)) ELSE s
RECURSIVE RStrip(_)
RStrip(s) == IF s # <<>> /\ IsSpace(s[Len(s)]) THEN RStrip(SubSeq(s, 1, Len(s) - 1)) ELSE s
Strip(s) == RStrip(LStrip(s))

\* sep.join(parts)
RECURSIVE Join(_, _)
Join(sep, parts) ==
    IF parts = <<>> THEN <<>>
    ELSE IF Len(parts) = 1 THEN parts[1]
    ELSE parts[1] \o sep \o Join(sep, Tail(parts))

(***************************************************************************)
(* Token extraction (OCR_OR.py, lines 150-172)                             *)
(***************************************************************************)
\* CTX_KEYWORDS: the alternatives of the label pattern, in pattern order
CTX_KEYWORDS == << <<"u5546","u54c1","u578b","u865f">>,
                   <<"u578b","u865f">>,
                   <<"M","o","d","e","l">> >>

\* MODEL_TOKEN: the character class and the repetition bounds
MODEL_TOKEN_CHARS == UpperSet \cup LowerSet \cup Digits
                     \cup {"-", "_", "/", ".", "+", "$"}
TokenMinLen == 2
TokenMaxLen == 24

\* NEG_UNIT_RE: the alternatives before the \b
NEG_UNIT_RE == << <<"m","m">>, <<"c","m">>, <<"m","A","h">>, <<"m","a","h">>,
                  <<"w">>, <<"v">>, <<"h","z">>, <<Degree,"c">>, <<"k","g">> >>

NEG_MAT_SET == { <<"A","B","S">>, <<"P","V","C">>, <<"P","P">> }

\* the window pattern: up to CtxSameLine characters, an optional newline,
\* up to CtxNextLine characters
CtxSameLine == 40
CtxNextLine == 80

\* a literal matched at position i of s under re.IGNORECASE
MatchAtIgnoreCase(s, i, lit) ==
    /\ i + Len(lit) - 1 <= Len(s)
    /\ \A k \in 1..Len(lit) : LowerChar(s[i + k - 1]) = LowerChar(lit[k])

\* length of the label alternative matched at position i, 0 if none matches
KeywordLenAt(s, i) ==
    IF MatchAtIgnoreCase(s, i, CTX_KEYWORDS[1]) THEN Len(CTX_KEYWORDS[1])
    ELSE IF MatchAtIgnoreCase(s, i, CTX_KEYWORDS[2]) THEN Len(CTX_KEYWORDS[2])
    ELSE IF MatchAtIgnoreCase(s, i, CTX_KEYWORDS[3]) THEN Len(CTX_KEYWORDS[3])
    ELSE 0

Min(a, b) == IF a < b THEN a ELSE b
Max(a, b) == IF a > b THEN a ELSE b

\* least position in lo..hi that holds a newline, 0 if there is none
\* (the range is halved so that long texts do not nest deeply)
RECURSIVE FirstNewline(_, _, _)
FirstNewline(s, lo, hi) ==
    IF lo > hi THEN 0
    ELSE IF lo = hi THEN (IF s[lo] = "\n" THEN lo ELSE 0)
    ELSE LET mid == (lo + hi) \div 2
             l   == FirstNewline(s, lo, mid)
         IN  IF l # 0 THEN l ELSE FirstNewline(s, mid + 1, hi)

\* greedy [^\n]{0,max} from position i: number of characters consumed
GreedyLine(s, i, max) ==
    LET hi == Min(Len(s), i + max - 1)
        nl == FirstNewline(s, i, hi)
    IN  IF nl # 0 THEN nl - i ELSE Max(0, hi - i + 1)

\* position after the window that starts with the label at i (length k)
CtxEnd(s, i, k) ==
    LET p1 == i + k
        p2 == p1 + GreedyLine(s, p1, CtxSameLine)
        p3 == IF p2 <= Len(s) /\ s[p2] = "\n" THEN p2 + 1 ELSE p2
    IN  p3 + GreedyLine(s, p3, CtxNextLine)

\* ctx_pat.findall(text): the non-overlapping windows, left to right
\* least position in lo..hi where a label matches, 0 if there is none
RECURSIVE FirstKeyword(_, _, _)
FirstKeyword(s, lo, hi) ==
    IF lo > hi THEN 0
    ELSE IF lo = hi THEN (IF KeywordLenAt(s, lo) > 0 THEN lo ELSE 0)
    ELSE LET mid == (lo + hi) \div 2
             l   == FirstKeyword(s, lo, mid)
         IN  IF l # 0 THEN l ELSE FirstKeyword(s, mid + 1, hi)

RECURSIVE CtxFindAll(_, _)
CtxFindAll(s, from) ==
    LET i == FirstKeyword(s, from, Len(s))
    IN  IF i = 0 THEN <<>>
        ELSE LET e == CtxEnd(s, i, KeywordLenAt(s, i))
             IN  <<SubSeq(s, i, e - 1)>> \o CtxFindAll(s, e)

\* token_pat.search(ctx): the leftmost, greedy match; <<>> when there is none
\* least position in lo..hi that holds no token character, 0 if none
RECURSIVE FirstNonToken(_, _, _)
FirstNonToken(ctx, lo, hi) ==
    IF lo > hi THEN 0
    ELSE IF lo = hi THEN (IF ctx[lo] \notin MODEL_TOKEN_CHARS THEN lo ELSE 0)
    ELSE LET mid == (lo + hi) \div 2
             l   == FirstNonToken(ctx, lo, mid)
         IN  IF l # 0 THEN l ELSE FirstNonToken(ctx, mid + 1, hi)

\* greedy run of token characters from position i, at most max long
TokenRun(ctx, i, max) ==
    LET hi == Min(Len(ctx), i + max - 1)
        e  == FirstNonToken(ctx, i, hi)
    IN  IF e # 0 THEN e - i ELSE Max(0, hi - i + 1)

\* least position in lo..hi where TokenMinLen token characters start
RECURSIVE FirstTokenStart(_, _, _)
FirstTokenStart(ctx, lo, hi) ==
    IF lo > hi THEN 0
    ELSE IF lo = hi THEN (IF TokenRun(ctx, lo, TokenMinLen) = TokenMinLen THEN lo ELSE 0)
    ELSE LET mid == (lo + hi) \div 2
             l   == FirstTokenStart(ctx, lo, mid)
         IN  IF l # 0 THEN l ELSE FirstTokenStart(ctx, mid + 1, hi)

\* token_pat.search(ctx) with a lazy repetition {2,24}?
TokenSearch_Lazy(ctx) ==
    LET i == FirstTokenStart(ctx, 1, Len(ctx))
    IN  IF i = 0 THEN <<>>
        ELSE SubSeq(ctx, i, i + TokenMinLen - 1)

TokenSearch(ctx) ==
    LET i == FirstTokenStart(ctx, 1, Len(ctx))
    IN  IF i = 0 THEN <<>>
        ELSE SubSeq(ctx, i, i + TokenRun(ctx, i, TokenMaxLen) - 1)

\* neg_unit_pat.match(token) in place of search: only position 1 is tried
NegUnitSearch_Match(token) ==
    \E a \in DOMAIN NEG_UNIT_RE :
        LET u == NEG_UNIT_RE[a]
            e == 1 + Len(u)
        IN  /\ MatchAtIgnoreCase(token, 1, u)
            /\ IsWordChar(token[e - 1]) # (e <= Len(token) /\ IsWordChar(token[e]))

\* neg_unit_pat.search(token): a unit alternative followed by a word boundary
NegUnitSearch(token) ==
    \E p \in 1..Len(token) : \E a \in DOMAIN NEG_UNIT_RE :
        LET u == NEG_UNIT_RE[a]
            e == p + Len(u)
        IN  /\ MatchAtIgnoreCase(token, p, u)
            /\ IsWordChar(token[e - 1]) # (e <= Len(token) /\ IsWordChar(token[e]))

\* the loop with a list and found.append(token) in place of the OrderedDict
RECURSIVE ExtractLoop_List(_, _)
ExtractLoop_List(ctxs, found) ==
    IF ctxs = <<>> THEN found
    ELSE LET token == TokenSearch(ctxs[1])
         IN  IF token = <<>> THEN ExtractLoop_List(Tail(ctxs), found)
             ELSE IF NegUnitSearch(token) THEN ExtractLoop_List(Tail(ctxs), found)
             ELSE IF UpperStr(token) \in NEG_MAT_SET THEN ExtractLoop_List(Tail(ctxs), found)
             ELSE ExtractLoop_List(Tail(ctxs), Append(found, token))

\* the loop with a rejected match followed by a search of the rest of the
\* window (finditer in place of search)
RECURSIVE ExtractLoop_NextToken(_, _)
ExtractLoop_NextToken(ctxs, found) ==
    IF ctxs = <<>> THEN found
    ELSE LET token == TokenSearch(ctxs[1])
             i     == FirstTokenStart(ctxs[1], 1, Len(ctxs[1]))
             rest  == SubSeq(ctxs[1], i + Len(token), Len(ctxs[1]))
         IN  IF token = <<>> THEN ExtractLoop_NextToken(Tail(ctxs), found)
             ELSE IF NegUnitSearch(token) \/ UpperStr(token) \in NEG_MAT_SET
                  THEN ExtractLoop_NextToken(<<rest>> \o Tail(ctxs), found)
             ELSE IF token \in Range(found) THEN ExtractLoop_NextToken(Tail(ctxs), found)
             ELSE ExtractLoop_NextToken(Tail(ctxs), Append(found, token))

\* the body of the for loop over the windows; found is the key list of the
\* OrderedDict
RECURSIVE ExtractLoop(_, _)
ExtractLoop(ctxs, found) ==
    IF ctxs = <<>> THEN found
    ELSE LET token == TokenSearch(ctxs[1])
         IN  IF token = <<>> THEN ExtractLoop(Tail(ctxs), found)
             ELSE IF NegUnitSearch(token) THEN ExtractLoop(Tail(ctxs), found)
             ELSE IF UpperStr(token) \in NEG_MAT_SET THEN ExtractLoop(Tail(ctxs), found)
             ELSE IF token \in Range(found) THEN ExtractLoop(Tail(ctxs), found)
             ELSE ExtractLoop(Tail(ctxs), Append(found, token))

extract_models_from_text(text) == ExtractLoop(CtxFindAll(text, 1), <<>>)

(***************************************************************************)
(* Image enumeration (OCR_OR.py, lines 85-99)                              *)
(***************************************************************************)
\* the while loop without the inner test "if i <= j"
RECURSIVE InterleaveLoop_NoInnerTest(_, _, _, _)
InterleaveLoop_NoInnerTest(seq, i, j, out) ==
    IF i <= j
    THEN InterleaveLoop_NoInnerTest(seq, i + 1, j - 1, Append(Append(out, seq[i]), seq[j]))
    ELSE out

\* the while loop of _interleave_ends; i and j are 1-based here
RECURSIVE InterleaveLoop(_, _, _, _)
InterleaveLoop(seq, i, j, out) ==
    IF i <= j
    THEN LET out1 == Append(out, seq[i])
             i1   == i + 1
         IN  IF i1 <= j
             THEN InterleaveLoop(seq, i1, j - 1, Append(out1, seq[j]))
             ELSE InterleaveLoop(seq, i1, j, out1)
    ELSE out

_interleave_ends(seq) == InterleaveLoop(seq, 1, Len(seq), <<>>)

\* list.sort() on a list of distinct str
RECURSIVE SortStrs(_)
SortStrs(S) ==
    IF S = {} THEN <<>>
    ELSE LET m == CHOOSE x \in S : \A y \in S \ {x} : StrLess(x, y)
         IN  <<m>> \o SortStrs(S \ {m})

exts == { <<".","j","p","g">>, <<".","j","p","e","g">>, <<".","p","n","g">>,
          <<".","w","e","b","p">>, <<".","b","m","p">>, <<".","t","i","f">>,
          <<".","t","i","f","f">> }

\* f.lower().endswith(exts)
IsImageName(f) == \E e \in exts : EndsWith(LowerStr(f), e)

\* list_images with f.endswith(exts) in place of f.lower().endswith(exts)
list_images_CaseSensitive(listing) ==
    _interleave_ends(SortStrs({f \in listing : \E e \in exts : EndsWith(f, e)}))

\* list_images(folder); listing is os.listdir(folder).  Every path is
\* os.path.join(folder, f), so paths sort as their file names do, and
\* os.path.basename gives the file name back: a path is modelled by its name.
list_images(listing) == _interleave_ends(SortStrs({f \in listing : IsImageName(f)}))

(***************************************************************************)
(* Text files                                                              *)
(***************************************************************************)
\* open(p, "w", encoding="utf-8").write(s): "\n" is written as os.linesep
RECURSIVE WriteRange(_, _, _)
WriteRange(s, lo, hi) ==
    IF lo > hi THEN <<>>
    ELSE IF lo = hi THEN (IF s[lo] = "\n" THEN <<"\r", "\n">> ELSE <<s[lo]>>)
    ELSE LET mid == (lo + hi) \div 2
         IN  WriteRange(s, lo, mid) \o WriteRange(s, mid + 1, hi)

WriteText(s) == WriteRange(s, 1, Len(s))

\* open(p, "r", encoding="utf-8").read(): universal newlines
\* "\r\n" and a lone "\r" are read as "\n": every "\r" becomes "\n" and a
\* "\n" that follows a "\r" is dropped
RECURSIVE ReadRange(_, _, _)
ReadRange(d, lo, hi) ==
    IF lo > hi THEN <<>>
    ELSE IF lo = hi
         THEN IF d[lo] = "\r" THEN <<"\n">>
              ELSE IF d[lo] = "\n" /\ lo > 1 /\ d[lo - 1] = "\r" THEN <<>>
              ELSE <<d[lo]>>
    ELSE LET mid == (lo + hi) \div 2
         IN  ReadRange(d, lo, mid) \o ReadRange(d, mid + 1, hi)

ReadText(d) == ReadRange(d, 1, Len(d))

NoFile == [exists |-> FALSE, data |-> <<>>]
FileOf(d) == [exists |-> TRUE, data |-> d]

\* os.path.getsize(p) == 0
IsEmptyFile(f) == f.data = <<>>

(***************************************************************************)
(* run_pipeline (OCR_OR.py, lines 195-339)                                 *)
(***************************************************************************)
MAX_LONG_EDGE  == 1000
REDLINE_MB     == 2000
EDGE_PRIMARY   == MAX_LONG_EDGE
EDGE_FALLBACK  == 832
DETAIL_PRIMARY == 1

None == <<>>

\* rss_mb(): the working set in MB, or -1 when the query fails
RssSentinel == 0 - 1
RssReadings == {RssSentinel, 1500, 2000}

\* tracemalloc.get_traced_memory()[1] in MB
PeakReadings == {1, 2}

\* at most MaxImages image files in the input folder
MaxImages == 3

\* file names the input folder may hold
FileUniverse == { <<"a",".","j","p","g">>,
                  <<"B",".","P","N","G">>,
                  <<"M","o","d","e","l",".","t","i","f">>,
                  <<"e",".","j","p","e","g">>,
                  <<"c",".","t","x","t">> }

\* reader.readtext results at detail=1: (box, text, confidence in percent)
OcrResults ==
    { <<>>,
      << [text |-> <<" ","u578b","u865f",":">>, prob |-> 90],
         [text |-> <<"5","m","m"," ">>, prob |-> 50] >>,
      << [text |-> <<"u578b","u865f"," ","A","B","-","1">>, prob |-> 80] >> }

\* gt argument of run_pipeline
GtValues == { None, <<"A","B","-","1">> }

RECURSIVE SumProbs(_)
SumProbs(results) == IF results = <<>> THEN 0 ELSE results[1].prob + SumProbs(Tail(results))

\* avg_prob(results); confidences are integers in percent, chosen so that
\* the mean is an integer
avg_prob(results) == IF results = <<>> THEN 0 ELSE SumProbs(results) \div Len(results)

\* texts = [r[1] for r in results ...] (detail=1) and
\* texts = [t for t in results ...] (detail=0)
TextsOf(results) == [i \in DOMAIN results |-> results[i].text]

\* line 239 with > for >= at the redline
UseEdge_Boundary(rss_before) ==
    IF rss_before >= 0 /\ rss_before <= REDLINE_MB THEN EDGE_PRIMARY ELSE EDGE_FALLBACK

\* line 239
UseEdge(rss_before) ==
    IF rss_before >= 0 /\ rss_before < REDLINE_MB THEN EDGE_PRIMARY ELSE EDGE_FALLBACK

\* line 240 without the test for the sentinel
UseDetail_NoSentinelTest(rss_before) ==
    IF rss_before < REDLINE_MB THEN DETAIL_PRIMARY ELSE 0

\* line 240
UseDetail(rss_before) ==
    IF rss_before >= 0 /\ rss_before < REDLINE_MB THEN DETAIL_PRIMARY ELSE 0

\* line 260
TextJoined(texts) == Strip(Join(<<" ">>, texts))

\* lines 263-264 with the f-string f"{text_joined}\n\n"
Block_NoHeader(name, text_joined) == text_joined \o <<"\n", "\n">>

\* lines 263-264: f"[{name}]\n{text_joined}\n\n"
Block(name, text_joined) == <<"[">> \o name \o <<"]", "\n">> \o text_joined \o <<"\n", "\n">>

\* line 268 with the "not" lost
EarlyStop_NotLost(early_models, found_early) == early_models # <<>> /\ found_early # None

\* line 268
EarlyStop(early_models, found_early) == early_models # <<>> /\ found_early = None

RECURSIVE TokenLines(_)
TokenLines(models) ==
    IF models = <<>> THEN <<>> ELSE models[1] \o <<"\n">> \o TokenLines(Tail(models))

HeaderLine == <<"u627e","u5230","u7684","u578b","u865f",FullwidthColon,"\n">>
NoTokenLine == <<"u672a","u627e","u5230","u578b","u865f","\n">>

\* lines 270-272 with the known-correct token, when given, listed first
EarlyModelText_GtFirst(early_models) ==
    HeaderLine \o TokenLines(IF gt # None THEN <<gt>> \o early_models ELSE early_models)

\* lines 270-272
EarlyModelText(early_models) == HeaderLine \o TokenLines(early_models)

\* lines 308-310
FinalModelText(models) ==
    (IF models # <<>> THEN HeaderLine ELSE NoTokenLine) \o TokenLines(models)

\* line 304 without the guard: finalization always writes
NeedFinalWrite_Always(f) == TRUE

\* line 304 with the "not" lost
NeedFinalWrite_NotLost(f) == f.exists /\ IsEmptyFile(f)

\* line 304
NeedFinalWrite(f) == ~f.exists \/ IsEmptyFile(f)

\* score_summary(models, merged_text, gt), one tuple per line
score_summary(models, merged_text, gt_arg) ==
    LET noise_unit == {i \in DOMAIN models : NegUnitSearch(models[i])}
        noise_mat  == {i \in DOMAIN models : UpperStr(models[i]) \in NEG_MAT_SET}
        tp         == Cardinality({i \in DOMAIN models : models[i] = gt_arg})
        hit1       == IF models # <<>> /\ models[1] = gt_arg THEN 1 ELSE 0
    IN  << <<"CANDIDATES", models>>,
           <<"NOISE", Cardinality(noise_unit), Cardinality(noise_mat)>> >>
        \o (IF gt_arg # None
            THEN << <<"GT", gt_arg>>, <<"Hit@1", hit1>>, <<"Precision", tp, Len(models)>> >>
            ELSE <<>>)

\* files left in the output directory by an earlier run
OldToken == <<"O","L","D">>
StaleModel  == FileOf(WriteText(EarlyModelText(<<OldToken>>)))
StaleMerged == FileOf(WriteText(Block(<<"o",".","j","p","g">>, <<"M","o","d","e","l"," ">> \o OldToken)))
StaleCsv    == FileOf(<< <<"header">>, <<1, <<"o",".","j","p","g">>, 9, 0>> >>)
StaleLog    == FileOf(<< <<"ERR", 1, <<"o",".","j","p","g">> >> >>)
StaleFailed == FileOf(<<"o",".","j","p","g">>)
StaleScore  == FileOf(score_summary(<<OldToken>>, <<>>, None))

\* the calls made for one image: the probe reading, the tier chosen, the
\* long edges passed to load_and_preprocess, the detail levels passed to
\* reader.readtext, whether MemoryError was raised while the results were
\* post-processed, the number of exceptions raised, the confidence recorded
\* and the outcome
NoCall == [name |-> <<>>, rss |-> 0, edge |-> 0, detail |-> 0,
           loads |-> <<>>, reads |-> <<>>, oom |-> FALSE, raised |-> 0,
           ap |-> 0, status |-> "none"]

pure_vars == <<text_in, tokens_out, seq_in, seq_out>>
fb_vars   == <<fb_pc, fb, ret>>
twin_vars == <<run, trace, run1>>
call_vars == <<fix_in, fix_out, api_pc, api>>
file_vars == <<f_merged, f_csv, f_log, f_model, f_failed, f_score>>

\* lines 68-82 without the os.path.isdir test of line 73
ResolvePaths_NoCheck ==
    /\ pc = "load"
    /\ output_dir_exists' = TRUE
    /\ pc' = "call"
    /\ UNCHANGED <<input_dir, input_dir_exists, stale, gt, images, idx, merged_so_far,
                   model_found_early, failed, peak_py_mb_overall, tracing, reader,
                   file_vars, last, model_writes, blocks_written, pure_vars, fb_vars, call_vars>>

\* lines 68-82, run when the module is loaded (line 82): the output
\* directory is made, then a missing input folder ends the process
\* (sys.exit(1), line 75); otherwise line 343 calls run_pipeline
ResolvePaths ==
    /\ pc = "load"
    /\ output_dir_exists' = TRUE
    /\ pc' = IF input_dir_exists THEN "call" ELSE "exited"
    /\ UNCHANGED <<input_dir, input_dir_exists, stale, gt, images, idx, merged_so_far,
                   model_found_early, failed, peak_py_mb_overall, tracing, reader,
                   file_vars, last, model_writes, blocks_written, pure_vars, fb_vars, call_vars>>

\* lines 196-231 without the removal of stale artifacts (lines 218-221)
Begin_NoClear ==
    /\ pc = "call"
    /\ output_dir_exists' = TRUE
    /\ IF ~input_dir_exists
       THEN /\ pc' = "raised"
            /\ UNCHANGED <<images, idx, merged_so_far, model_found_early, failed,
                           peak_py_mb_overall, tracing, reader, file_vars>>
       ELSE /\ images' = list_images(input_dir)
            /\ IF images' = <<>>
               THEN /\ pc' = "aborted"
                    /\ UNCHANGED <<idx, merged_so_far, model_found_early, failed,
                                   peak_py_mb_overall, tracing, reader, file_vars>>
               ELSE /\ pc' = "scan"
                    /\ tracing' = TRUE
                    /\ reader' = reader + 1
                    /\ failed' = <<>>
                    /\ peak_py_mb_overall' = 0
                    /\ f_csv' = FileOf(<< <<"header">> >>)
                    /\ f_log' = FileOf(<<>>)
                    /\ f_merged' = FileOf(<<>>)
                    /\ merged_so_far' = <<>>
                    /\ model_found_early' = None
                    /\ idx' = 0
                    /\ UNCHANGED <<f_model, f_score, f_failed>>
    /\ UNCHANGED <<input_dir, input_dir_exists, stale, gt, last, model_writes,
                   blocks_written, pure_vars, fb_vars, call_vars>>

\* lines 196-231 with the removal of stale artifacts (lines 218-221) moved
\* before the test of line 207
Begin_ClearFirst ==
    /\ pc = "call"
    /\ output_dir_exists' = TRUE
    /\ images' = list_images(input_dir)
    /\ f_model' = NoFile
    /\ f_score' = NoFile
    /\ f_failed' = NoFile
    /\ IF images' = <<>>
       THEN /\ pc' = "aborted"
            /\ f_csv' = NoFile
            /\ f_log' = NoFile
            /\ f_merged' = NoFile
            /\ UNCHANGED <<idx, merged_so_far, model_found_early, failed,
                           peak_py_mb_overall, tracing, reader>>
       ELSE /\ pc' = "scan"
            /\ tracing' = TRUE
            /\ reader' = reader + 1
            /\ failed' = <<>>
            /\ peak_py_mb_overall' = 0
            /\ f_csv' = FileOf(<< <<"header">> >>)
            /\ f_log' = FileOf(<<>>)
            /\ f_merged' = FileOf(<<>>)
            /\ merged_so_far' = <<>>
            /\ model_found_early' = None
            /\ idx' = 0
    /\ UNCHANGED <<input_dir, input_dir_exists, stale, gt, last, model_writes,
                   blocks_written, pure_vars, fb_vars, call_vars>>

\* lines 196-231: enumeration (os.listdir raises when the folder is
\* missing), the empty-folder return, engine start, removal of stale
\* artifacts, opening of the three streams
Begin ==
    /\ pc = "call"
    /\ output_dir_exists' = TRUE
    /\ IF ~input_dir_exists
       THEN /\ pc' = "raised"
            /\ UNCHANGED <<images, idx, merged_so_far, model_found_early, failed,
                           peak_py_mb_overall, tracing, reader, file_vars>>
       ELSE /\ images' = list_images(input_dir)
            /\ IF images' = <<>>
               THEN /\ pc' = "aborted"
                    /\ UNCHANGED <<idx, merged_so_far, model_found_early, failed,
                                   peak_py_mb_overall, tracing, reader, file_vars>>
               ELSE /\ pc' = "scan"
                    /\ tracing' = TRUE
                    /\ reader' = reader + 1
                    /\ failed' = <<>>
                    /\ peak_py_mb_overall' = 0
                    /\ f_model' = NoFile
                    /\ f_score' = NoFile
                    /\ f_failed' = NoFile
                    /\ f_csv' = FileOf(<< <<"header">> >>)
                    /\ f_log' = FileOf(<<>>)
                    /\ f_merged' = FileOf(<<>>)
                    /\ merged_so_far' = <<>>
                    /\ model_found_early' = None
                    /\ idx' = 0
    /\ UNCHANGED <<input_dir, input_dir_exists, stale, gt, last, model_writes,
                   blocks_written, pure_vars, fb_vars, call_vars>>

\* lines 295-301 with an except clause that does not catch the exception
ImageFailed_Propagates(call) ==
    /\ last' = [call EXCEPT !.raised = @ + 1, !.status = "failed"]
    /\ pc' = "raised"
    /\ UNCHANGED <<failed, f_log, merged_so_far, model_found_early, peak_py_mb_overall,
                   f_merged, f_csv, f_model, model_writes, blocks_written>>

\* lines 295-301 without failed.append(name) (line 296)
ImageFailed_NotListed(call) ==
    /\ f_log' = FileOf(Append(f_log.data, <<"ERR", idx + 1, call.name>>))
    /\ last' = [call EXCEPT !.raised = @ + 1, !.status = "failed"]
    /\ pc' = "scan"
    /\ UNCHANGED <<failed, merged_so_far, model_found_early, peak_py_mb_overall,
                   f_merged, f_csv, f_model, model_writes, blocks_written>>

\* lines 295-301: the except branch of one loop iteration
ImageFailed(call) ==
    /\ failed' = Append(failed, call.name)
    /\ f_log' = FileOf(Append(f_log.data, <<"ERR", idx + 1, call.name>>))
    /\ last' = [call EXCEPT !.raised = @ + 1, !.status = "failed"]
    /\ pc' = "scan"
    /\ UNCHANGED <<merged_so_far, model_found_early, peak_py_mb_overall,
                   f_merged, f_csv, f_model, model_writes, blocks_written>>

\* lines 260-293 with writer.writerow (line 283) moved before the early-stop
\* test of line 268
ImageRecognized_RowFirst(call, texts, ap) ==
    LET name         == call.name
        text_joined  == TextJoined(texts)
        block        == Block(name, text_joined)
        merged       == merged_so_far \o block
        early_models == extract_models_from_text(merged)
    IN  /\ f_merged' = FileOf(f_merged.data \o WriteText(block))
        /\ blocks_written' = Append(blocks_written, [idx |-> idx + 1, block |-> block])
        /\ merged_so_far' = merged
        /\ UNCHANGED failed
        /\ f_csv' = FileOf(Append(f_csv.data, <<idx + 1, name, Len(text_joined), ap>>))
        /\ IF EarlyStop(early_models, model_found_early)
           THEN /\ f_model' = FileOf(WriteText(EarlyModelText(early_models)))
                /\ model_writes' = Append(model_writes,
                       [at |-> "early", idx |-> idx + 1, tokens |-> early_models])
                /\ model_found_early' = early_models[1]
                /\ last' = [call EXCEPT !.ap = ap, !.status = "stop"]
                /\ pc' = "stopped"
                /\ UNCHANGED <<peak_py_mb_overall, f_log>>
           ELSE /\ \E py_peak_mb \in PeakReadings :
                       peak_py_mb_overall' = Max(peak_py_mb_overall, py_peak_mb)
                /\ f_log' = FileOf(Append(f_log.data, <<"OK", idx + 1, name>>))
                /\ last' = [call EXCEPT !.ap = ap, !.status = "ok"]
                /\ pc' = "scan"
                /\ UNCHANGED <<model_found_early, f_model, model_writes>>

\* lines 260-293: the image was recognized; texts and ap are set
ImageRecognized(call, texts, ap) ==
    LET name         == call.name
        text_joined  == TextJoined(texts)
        block        == Block(name, text_joined)
        merged       == merged_so_far \o block
        early_models == extract_models_from_text(merged)
    IN  /\ f_merged' = FileOf(f_merged.data \o WriteText(block))
        /\ blocks_written' = Append(blocks_written, [idx |-> idx + 1, block |-> block])
        /\ merged_so_far' = merged
        /\ UNCHANGED failed
        /\ IF EarlyStop(early_models, model_found_early)
           THEN /\ f_model' = FileOf(WriteText(EarlyModelText(early_models)))
                /\ model_writes' = Append(model_writes,
                       [at |-> "early", idx |-> idx + 1, tokens |-> early_models])
                /\ model_found_early' = early_models[1]
                /\ last' = [call EXCEPT !.ap = ap, !.status = "stop"]
                /\ pc' = "stopped"
                /\ UNCHANGED <<peak_py_mb_overall, f_csv, f_log>>
           ELSE /\ \E py_peak_mb \in PeakReadings :
                       peak_py_mb_overall' = Max(peak_py_mb_overall, py_peak_mb)
                /\ f_csv' = FileOf(Append(f_csv.data,
                       <<idx + 1, name, Len(text_joined), ap>>))
                /\ f_log' = FileOf(Append(f_log.data, <<"OK", idx + 1, name>>))
                /\ last' = [call EXCEPT !.ap = ap, !.status = "ok"]
                /\ pc' = "scan"
                /\ UNCHANGED <<model_found_early, f_model, model_writes>>

\* lines 249-255 without the retry: the MemoryError is handled as a failure
RetryFallback_GiveUp(call) == ImageFailed([call EXCEPT !.oom = TRUE])

\* lines 249-255: the MemoryError handler of the inner try
RetryFallback(call) ==
    LET c1 == [call EXCEPT !.oom = TRUE, !.raised = @ + 1,
                           !.loads = Append(@, EDGE_FALLBACK)]
        c2 == [c1 EXCEPT !.reads = Append(@, 0)]
    IN  \/ ImageFailed(c1)                       \* load_and_preprocess raises
        \/ ImageFailed(c2)                       \* reader.readtext or line 254 raises
        \/ \E results \in OcrResults :
              ImageRecognized(c2, TextsOf(results), 0)

\* lines 234-301: one iteration of the for loop
ProcessImage ==
    /\ pc = "scan"
    /\ idx < Len(images)
    /\ idx' = idx + 1
    /\ \E rss_before \in RssReadings :
         LET name       == images[idx + 1]
             use_edge   == UseEdge(rss_before)
             use_detail == UseDetail(rss_before)
             c0 == [NoCall EXCEPT !.name = name, !.rss = rss_before,
                                  !.edge = use_edge, !.detail = use_detail,
                                  !.loads = <<use_edge>>]
             c1 == [c0 EXCEPT !.reads = <<use_detail>>]
         IN  \/ ImageFailed(c0)                  \* load_and_preprocess raises
             \/ ImageFailed(c1)                  \* reader.readtext raises, or
                                                 \* lines 247-248 raise another
                                                 \* exception than MemoryError
             \/ /\ use_detail = 1
                /\ \/ \E results \in OcrResults :
                         ImageRecognized(c1, TextsOf(results), avg_prob(results))
                   \/ RetryFallback(c1)         \* MemoryError in lines 247-248
             \/ /\ use_detail # 1
                /\ \/ \E results \in OcrResults :
                         ImageRecognized(c1, TextsOf(results), 0)
                   \/ ImageFailed([c1 EXCEPT !.oom = TRUE])  \* MemoryError in line 257
    /\ UNCHANGED <<input_dir, input_dir_exists, stale, gt, images, tracing, reader,
                   f_failed, f_score, output_dir_exists, pure_vars, fb_vars, call_vars>>

\* lines 303-339: reached by the break or by the end of the scan order
Finalize ==
    /\ \/ pc = "stopped"
       \/ pc = "scan" /\ idx = Len(images)
    /\ pc' = "done"
    /\ LET merged_text == ReadText(f_merged.data)
           models      == extract_models_from_text(merged_text)
       IN  /\ IF NeedFinalWrite(f_model)
              THEN /\ f_model' = FileOf(WriteText(FinalModelText(models)))
                   /\ model_writes' = Append(model_writes,
                          [at |-> "final", idx |-> idx, tokens |-> models])
              ELSE UNCHANGED <<f_model, model_writes>>
           /\ f_score' = FileOf(score_summary(models, merged_text, gt))
    /\ f_failed' = IF failed # <<>>
                   THEN FileOf(WriteText(Join(<<"\n">>, failed)))
                   ELSE f_failed
    /\ \E py_peak_final \in PeakReadings :
           peak_py_mb_overall' = Max(peak_py_mb_overall, py_peak_final)
    /\ tracing' = FALSE
    /\ UNCHANGED <<input_dir, input_dir_exists, stale, gt, images, idx, merged_so_far,
                   model_found_early, failed, reader, f_merged, f_csv, f_log, last,
                   blocks_written, output_dir_exists, pure_vars, fb_vars, call_vars>>

Dirs == {d \in SUBSET FileUniverse : Cardinality({f \in d : IsImageName(f)}) <= MaxImages}

\* no fallback call, no repetition of the run
NoFallback ==
    /\ fb_pc = "none"
    /\ fb = <<>>
    /\ ret = <<>>

NoTwin ==
    /\ run = 1
    /\ trace = <<>>
    /\ run1 = <<>>

\* no direct call of _confusion_whitelist_fix, no call of _api_fetch_with_retry
NoFixCall ==
    /\ fix_in = <<>>
    /\ fix_out = <<>>

NoApiCall ==
    /\ api_pc = "none"
    /\ api = <<>>

Init ==
    /\ pc = "load"
    /\ input_dir_exists \in BOOLEAN
    /\ input_dir \in (IF input_dir_exists THEN Dirs ELSE {{}})
    /\ NoFallback
    /\ NoTwin
    /\ NoFixCall
    /\ NoApiCall
    /\ stale \in BOOLEAN
    /\ gt \in GtValues
    /\ output_dir_exists = stale
    /\ f_merged = IF stale THEN StaleMerged ELSE NoFile
    /\ f_csv    = IF stale THEN StaleCsv ELSE NoFile
    /\ f_log    = IF stale THEN StaleLog ELSE NoFile
    /\ f_model  = IF stale THEN StaleModel ELSE NoFile
    /\ f_failed = IF stale THEN StaleFailed ELSE NoFile
    /\ f_score  = IF stale THEN StaleScore ELSE NoFile
    /\ images = <<>>
    /\ idx = 0
    /\ merged_so_far = <<>>
    /\ model_found_early = None
    /\ failed = <<>>
    /\ peak_py_mb_overall = 0
    /\ tracing = FALSE
    /\ reader = 0
    /\ last = NoCall
    /\ model_writes = <<>>
    /\ blocks_written = <<>>
    /\ text_in = <<>>
    /\ tokens_out = <<>>
    /\ seq_in = <<>>
    /\ seq_out = <<>>

Next ==
    \/ ResolvePaths /\ UNCHANGED twin_vars
    \/ Begin /\ UNCHANGED twin_vars
    \/ ProcessImage /\ UNCHANGED twin_vars
    \/ Finalize /\ UNCHANGED twin_vars

Spec == Init /\ [][Next]_vars

\* the control is inside the module
Running == pc \in {"load", "call", "scan", "stopped"}

\* the control moves on: every step of Next changes pc or idx
Proceed ==
    /\ Running
    /\ pc' \in {"call", "exited", "scan", "aborted", "raised", "stopped", "done"}
    /\ idx' \in {idx, idx + 1}
    /\ <<pc', idx'>> # <<pc, idx>>

\* the module is one thread of straight-line code and loops over finite
\* lists: while the control is inside the module it moves on, provided every
\* call into the OCR engine returns or raises
SpecLive == Spec /\ WF_<<pc, idx>>(Proceed)

(***************************************************************************)
(* Direct calls of extract_models_from_text                                *)
(***************************************************************************)
\* a text is the concatenation of at most MaxFrags fragments
MaxFrags == 5

Fragments == { <<"u578b","u865f">>,
               <<"M","o","d","e","l">>,
               <<":"," ">>,
               <<"\n","\n">>,
               <<"X","9">>,
               <<"A","B","-","1">>,
               <<"5","m","m">>,
               <<"p","p">> }

RECURSIVE Concat(_)
Concat(parts) == IF parts = <<>> THEN <<>> ELSE parts[1] \o Concat(Tail(parts))

FragSeqs == UNION {[1..n -> Fragments] : n \in 0..MaxFrags}

InitBlank ==
    /\ input_dir = {}
    /\ input_dir_exists = TRUE
    /\ NoFallback
    /\ NoTwin
    /\ stale = FALSE
    /\ gt = None
    /\ output_dir_exists = FALSE
    /\ f_merged = NoFile
    /\ f_csv = NoFile
    /\ f_log = NoFile
    /\ f_model = NoFile
    /\ f_failed = NoFile
    /\ f_score = NoFile
    /\ images = <<>>
    /\ idx = 0
    /\ merged_so_far = <<>>
    /\ model_found_early = None
    /\ failed = <<>>
    /\ peak_py_mb_overall = 0
    /\ tracing = FALSE
    /\ reader = 0
    /\ last = NoCall
    /\ model_writes = <<>>
    /\ blocks_written = <<>>

InitExtract ==
    /\ pc = "extract_call"
    /\ \E parts \in FragSeqs : text_in = Concat(parts)
    /\ tokens_out = <<>>
    /\ seq_in = <<>>
    /\ seq_out = <<>>
    /\ InitBlank
    /\ NoFixCall
    /\ NoApiCall

ExtractCall ==
    /\ pc = "extract_call"
    /\ tokens_out' = extract_models_from_text(text_in)
    /\ pc' = "extract_done"
    /\ UNCHANGED <<input_dir, stale, images, idx, merged_so_far, model_found_early,
                   failed, peak_py_mb_overall, tracing, reader, file_vars, last,
                   model_writes, blocks_written, gt, output_dir_exists,
                   input_dir_exists, text_in, seq_in, seq_out, fb_vars, twin_vars, call_vars>>

NextExtract == ExtractCall

SpecExtract == InitExtract /\ [][NextExtract]_vars

(***************************************************************************)
(* extract_models_from_text called with the block of one image             *)
(***************************************************************************)
\* the token after the label has at most MaxTokenLen characters of
\* TokenAlphabet, or is one of ExtraTokens
MaxTokenLen == 3

TokenAlphabet == {"A", "5", "-", "m", "P", "p", "v"}

ExtraTokens == { <<"A","B","C","-","1","2","3">>,
                 <<"M","o","d","e","l","-","5">>,
                 [i \in 1..TokenMaxLen |-> IF i % 2 = 1 THEN "A" ELSE "5"],
                 [i \in 1..(TokenMaxLen + 1) |-> IF i % 2 = 1 THEN "A" ELSE "5"] }

TokenPool == UNION {[1..n -> TokenAlphabet] : n \in 1..MaxTokenLen} \cup ExtraTokens

BlockNames == {f \in FileUniverse : IsImageName(f)}

LabelText == <<"u578b","u865f",":"," ">>

InitOneBlock ==
    /\ pc = "extract_call"
    /\ \E name \in BlockNames : \E T \in TokenPool :
           text_in = Block(name, LabelText \o T)
    /\ tokens_out = <<>>
    /\ seq_in = <<>>
    /\ seq_out = <<>>
    /\ InitBlank
    /\ NoFixCall
    /\ NoApiCall

SpecOneBlock == InitOneBlock /\ [][NextExtract]_vars

(***************************************************************************)
(* Direct calls of _interleave_ends and list_images                        *)
(***************************************************************************)
\* _interleave_ends is called with any list of at most MaxSeqLen paths
MaxSeqLen == 5

PathPool == { <<"a">>, <<"b">>, <<"c">> }

InitInterleave ==
    /\ InitBlank
    /\ NoFixCall
    /\ NoApiCall
    /\ text_in = <<>>
    /\ tokens_out = <<>>
    /\ seq_out = <<>>
    /\ pc = "interleave_call"
    /\ seq_in \in UNION {[1..n -> PathPool] : n \in 0..MaxSeqLen}

InitListImages ==
    /\ pc = "list_call"
    /\ input_dir \in SUBSET FileUniverse
    /\ input_dir_exists = TRUE
    /\ NoFallback
    /\ NoTwin
    /\ NoFixCall
    /\ NoApiCall
    /\ stale = FALSE
    /\ gt = None
    /\ output_dir_exists = FALSE
    /\ f_merged = NoFile
    /\ f_csv = NoFile
    /\ f_log = NoFile
    /\ f_model = NoFile
    /\ f_failed = NoFile
    /\ f_score = NoFile
    /\ images = <<>>
    /\ idx = 0
    /\ merged_so_far = <<>>
    /\ model_found_early = None
    /\ failed = <<>>
    /\ peak_py_mb_overall = 0
    /\ tracing = FALSE
    /\ reader = 0
    /\ last = NoCall
    /\ model_writes = <<>>
    /\ blocks_written = <<>>
    /\ text_in = <<>>
    /\ tokens_out = <<>>
    /\ seq_in = <<>>
    /\ seq_out = <<>>

InterleaveCall ==
    /\ pc = "interleave_call"
    /\ seq_out' = _interleave_ends(seq_in)
    /\ pc' = "interleave_done"
    /\ UNCHANGED <<input_dir, stale, images, idx, merged_so_far, model_found_early,
                   failed, peak_py_mb_overall, tracing, reader, file_vars, last,
                   model_writes, blocks_written, gt, output_dir_exists,
                   input_dir_exists, text_in, tokens_out, seq_in, fb_vars, twin_vars, call_vars>>

ListImagesCall ==
    /\ pc = "list_call"
    /\ images' = list_images(input_dir)
    /\ pc' = "list_done"
    /\ UNCHANGED <<input_dir, stale, idx, merged_so_far, model_found_early,
                   failed, peak_py_mb_overall, tracing, reader, file_vars, last,
                   model_writes, blocks_written, gt, output_dir_exists,
                   input_dir_exists, pure_vars, fb_vars, twin_vars, call_vars>>

NextInterleave == InterleaveCall \/ ListImagesCall

SpecInterleave == (InitInterleave \/ InitListImages) /\ [][NextInterleave]_vars

(***************************************************************************)
(* fallback_model_via_AB (T4_shopee_model_fallback__v5.py, lines 108-229)  *)
(***************************************************************************)
\* the marker returned when there is no candidate
NotFound == <<"u67e5","u7121">>

StartsWith(s, pre) == Len(pre) <= Len(s) /\ SubSeq(s, 1, Len(pre)) = pre

Drop(s, n) == SubSeq(s, n + 1, Len(s))

\* sub in s
Contains(s, sub) ==
    \E i \in 1..(Len(s) - Len(sub) + 1) : SubSeq(s, i, i + Len(sub) - 1) = sub

\* _confusion_whitelist_fix: the four re.sub calls, each anchored at the
\* start of the string
_confusion_whitelist_fix(str) ==
    LET s1 == IF StartsWith(str, <<"$","/","-">>) THEN <<"S","Y","-">> \o Drop(str, 3)
              ELSE IF StartsWith(str, <<"$","-">>) THEN <<"S","Y","-">> \o Drop(str, 2)
              ELSE str
        s2 == IF StartsWith(s1, <<"$","/">>) THEN <<"S","Y">> \o Drop(s1, 2)
              ELSE IF StartsWith(s1, <<"$">>) THEN <<"S","Y">> \o Drop(s1, 1)
              ELSE s1
        s3 == IF StartsWith(s2, <<"$">>) THEN <<"S">> \o Drop(s2, 1) ELSE s2
        s4 == IF StartsWith(s3, <<"/">>) THEN <<"Y">> \o Drop(s3, 1) ELSE s3
    IN  IF str = <<>> THEN str ELSE s4

\* [ln.strip() for ln in f.readlines()] on the text read from the file
RECURSIVE StrippedLines(_, _)
StrippedLines(t, from) ==
    LET nl == FirstNewline(t, from, Len(t))
    IN  IF from > Len(t) THEN <<>>
        ELSE IF nl = 0 THEN <<Strip(SubSeq(t, from, Len(t)))>>
        ELSE <<Strip(SubSeq(t, from, nl - 1))>> \o StrippedLines(t, nl + 1)

\* lines 129-131
IsHeader(line) ==
    \/ Contains(line, <<"u627e","u5230">>)
    \/ Contains(line, <<"u672a","u627e">>)
    \/ StartsWith(line, <<"#">>)

\* _first_model_from_output without the test of lines 129-131
_first_model_from_output_NoHeaderSkip(f) ==
    IF ~f.exists THEN NotFound
    ELSE LET lines == StrippedLines(ReadText(f.data), 1)
             cand  == {i \in DOMAIN lines : lines[i] # <<>>}
         IN  IF lines = <<>> \/ cand = {} THEN NotFound
             ELSE _confusion_whitelist_fix(lines[CHOOSE i \in cand : \A j \in cand : i <= j])

\* _first_model_from_output(output_dir); f is models_found.txt
_first_model_from_output(f) ==
    IF ~f.exists THEN NotFound
    ELSE LET lines     == StrippedLines(ReadText(f.data), 1)
             start_idx == IF lines # <<>> /\ IsHeader(lines[1]) THEN 1 ELSE 0
             cand      == {i \in DOMAIN lines : i > start_idx /\ lines[i] # <<>>}
         IN  IF lines = <<>> \/ cand = {} THEN NotFound
             ELSE _confusion_whitelist_fix(lines[CHOOSE i \in cand : \A j \in cand : i <= j])

\* what an earlier call may have left as models_found.txt in the OUTPUT
\* folder, which is never emptied
StaleModelsFb ==
    { StaleModel,
      FileOf(<<>>),
      FileOf(WriteText(FinalModelText(<<>>))),
      FileOf(WriteText(EarlyModelText(<< <<"$","/","-","1","1","8">>, OldToken >>))) }

run_vars == <<images, idx, merged_so_far, model_found_early, failed, peak_py_mb_overall,
              tracing, reader, last, model_writes, blocks_written>>

\* return "<marker>" from the place named by exit
FbReturnNotFound(exit) ==
    /\ ret' = NotFound
    /\ fb' = [fb EXCEPT !.exit = exit]
    /\ fb_pc' = "returned"

\* lines 175-183: the tests of the arguments and of the two imports
FbCheckArgs ==
    /\ fb_pc = "args"
    /\ IF ~fb.driver \/ ~fb.referer_is_str \/ ~fb.work_root_is_str
       THEN FbReturnNotFound("bad_args")
       ELSE IF ~fb.a_ok THEN FbReturnNotFound("a_unavailable")
       ELSE IF ~fb.b_ok THEN FbReturnNotFound("b_unavailable")
       ELSE /\ fb_pc' = "dirs"
            /\ UNCHANGED <<fb, ret>>
    /\ UNCHANGED <<pc, input_dir, input_dir_exists, stale, gt, output_dir_exists,
                   run_vars, file_vars, pure_vars, twin_vars, call_vars>>

\* lines 186-199: the item folder with an emptied INPUT and an OUTPUT
FbPrepareDirs ==
    /\ fb_pc = "dirs"
    /\ \/ /\ FbReturnNotFound("io_fail")
          /\ UNCHANGED <<input_dir, input_dir_exists, output_dir_exists>>
       \/ /\ input_dir' = {}
          /\ input_dir_exists' = TRUE
          /\ output_dir_exists' = TRUE
          /\ fb_pc' = "A"
          /\ UNCHANGED <<fb, ret>>
    /\ UNCHANGED <<pc, stale, gt, run_vars, file_vars, pure_vars, twin_vars, call_vars>>

\* lines 202-216: the URLs of the description images and their download
FbDownload ==
    /\ fb_pc = "A"
    /\ \/ /\ \E exit \in {"a_err", "no_urls", "none_saved"} : FbReturnNotFound(exit)
          /\ UNCHANGED input_dir
       \/ /\ \E saved \in Dirs \ {{}} : input_dir' = saved
          /\ fb_pc' = "B"
          /\ UNCHANGED <<fb, ret>>
    /\ UNCHANGED <<pc, input_dir_exists, stale, gt, output_dir_exists,
                   run_vars, file_vars, pure_vars, twin_vars, call_vars>>

\* lines 219-225 and 148-167: run_pipeline(input_dir, output_dir, MODEL_DIR,
\* None) is called, or the call raises before it has written anything
FbCallPipeline ==
    /\ fb_pc = "B"
    /\ \/ /\ pc' = "call"
          /\ fb_pc' = "B_running"
          /\ UNCHANGED <<fb, ret>>
       \/ /\ FbReturnNotFound("b_err")
          /\ pc' = "raised"
    /\ UNCHANGED <<input_dir, input_dir_exists, stale, gt, output_dir_exists,
                   run_vars, file_vars, pure_vars, twin_vars, call_vars>>

\* lines 228-229, reached when run_pipeline has returned
FbFirstModel ==
    /\ fb_pc = "B_running"
    /\ pc \in {"done", "aborted"}
    /\ LET model == _first_model_from_output(f_model)
       IN  \/ /\ ret' = (IF model # <<>> THEN model ELSE NotFound)
              /\ fb' = [fb EXCEPT !.exit = "read"]
           \/ /\ f_model.exists                \* the read raises, lines 138-140
              /\ ret' = NotFound
              /\ fb' = [fb EXCEPT !.exit = "parse_fail"]
    /\ fb_pc' = "returned"
    /\ UNCHANGED <<pc, input_dir, input_dir_exists, stale, gt, output_dir_exists,
                   run_vars, file_vars, pure_vars, twin_vars, call_vars>>

InitFallback ==
    /\ fb_pc = "args"
    /\ fb \in [driver : BOOLEAN, referer_is_str : BOOLEAN, work_root_is_str : BOOLEAN,
               a_ok : BOOLEAN, b_ok : BOOLEAN, exit : {"none"}]
    /\ ret = <<>>
    /\ pc = "idle"
    /\ input_dir = {}
    /\ input_dir_exists = FALSE
    /\ gt = None
    /\ stale \in BOOLEAN
    /\ output_dir_exists = stale
    /\ f_merged = IF stale THEN StaleMerged ELSE NoFile
    /\ f_csv    = IF stale THEN StaleCsv ELSE NoFile
    /\ f_log    = IF stale THEN StaleLog ELSE NoFile
    /\ f_model  \in (IF stale THEN StaleModelsFb ELSE {NoFile})
    /\ f_failed = IF stale THEN StaleFailed ELSE NoFile
    /\ f_score  = IF stale THEN StaleScore ELSE NoFile
    /\ images = <<>>
    /\ idx = 0
    /\ merged_so_far = <<>>
    /\ model_found_early = None
    /\ failed = <<>>
    /\ peak_py_mb_overall = 0
    /\ tracing = FALSE
    /\ reader = 0
    /\ last = NoCall
    /\ model_writes = <<>>
    /\ blocks_written = <<>>
    /\ text_in = <<>>
    /\ tokens_out = <<>>
    /\ seq_in = <<>>
    /\ seq_out = <<>>
    /\ NoTwin
    /\ NoFixCall
    /\ NoApiCall

NextFallback ==
    \/ FbCheckArgs
    \/ FbPrepareDirs
    \/ FbDownload
    \/ FbCallPipeline
    \/ Begin /\ UNCHANGED twin_vars
    \/ ProcessImage /\ UNCHANGED twin_vars
    \/ Finalize /\ UNCHANGED twin_vars
    \/ FbFirstModel

SpecFallback == InitFallback /\ [][NextFallback]_vars

(***************************************************************************)
(* _confusion_whitelist_fix called with one token                          *)
(***************************************************************************)
\* the token has at most MaxFixLen characters of FixAlphabet, or is one of
\* FixExtra
MaxFixLen == 3

FixAlphabet == {"$", "/", "-", "1", "S", "Y", "A"}

FixExtra == { <<"$","/","-","1","1","8">>, <<"$","-","1","1","8">>,
              <<"$","1","1","8">>, <<"/","1","1","8">>, <<"A","B","-","1">> }

FixInputs == UNION {[1..n -> FixAlphabet] : n \in 0..MaxFixLen} \cup FixExtra

InitFix ==
    /\ pc = "fix_call"
    /\ fix_in \in FixInputs
    /\ fix_out = <<>>
    /\ text_in = <<>>
    /\ tokens_out = <<>>
    /\ seq_in = <<>>
    /\ seq_out = <<>>
    /\ NoApiCall
    /\ InitBlank

FixCall ==
    /\ pc = "fix_call"
    /\ fix_out' = _confusion_whitelist_fix(fix_in)
    /\ pc' = "fix_done"
    /\ UNCHANGED <<input_dir, input_dir_exists, stale, gt, output_dir_exists, run_vars,
                   file_vars, pure_vars, fb_vars, twin_vars, fix_in, api_pc, api>>

NextFix == FixCall

SpecFix == InitFix /\ [][NextFix]_vars

(***************************************************************************)
(* ShopeeDocOrchestrator._api_fetch_with_retry (T0_orchestrator__v5.py,    *)
(* lines 110-151)                                                          *)
(***************************************************************************)
\* self.p.api_retry is at most MaxApiRetry
MaxApiRetry == 2

\* line 116
Tries(api_retry) == 1 + Max(0, api_retry)

\* what one attempt ends with: a dict with a non-empty "data", any other
\* value, an exception
AttemptResults == {"data", "no_data", "raised"}

\* line 139 without the test of driver
ViaPageAllowed_NoDriverTest == api.use_T2_page

\* line 139
ViaPageAllowed == api.use_T2_page /\ api.driver

\* the direct loop is left without a payload: lines 139-151
AfterDirect(calls) ==
    IF ViaPageAllowed
    THEN /\ api_pc' = "via_page"
         /\ api' = [api EXCEPT !.calls = calls, !.i = 0]
    ELSE /\ api_pc' = "returned"
         /\ api' = [api EXCEPT !.calls = calls, !.ret = "None"]

\* lines 122-136: one iteration of the direct loop; fetch_get_pc is called
\* again without the cookie when the first call raises TypeError
ApiDirectAttempt ==
    /\ api_pc = "direct"
    /\ api.i < Tries(api.api_retry)
    /\ \E result \in AttemptResults, type_error \in BOOLEAN :
         LET calls == Append(api.calls, [fn |-> "fetch_get_pc", i |-> api.i,
                                         n |-> IF type_error THEN 2 ELSE 1,
                                         result |-> result])
         IN  IF result = "data"
             THEN /\ api_pc' = "returned"
                  /\ api' = [api EXCEPT !.calls = calls, !.ret = "payload"]
             ELSE IF api.i + 1 < Tries(api.api_retry)
             THEN /\ api_pc' = "direct"
                  /\ api' = [api EXCEPT !.calls = calls, !.i = @ + 1,
                                        !.sleeps = @ + 1]
             ELSE AfterDirect(calls)
    /\ UNCHANGED <<pc, input_dir, input_dir_exists, stale, gt, output_dir_exists, run_vars,
                   file_vars, pure_vars, fb_vars, twin_vars, fix_in, fix_out>>

\* lines 140-149: one iteration of the via_page loop
ApiViaPageAttempt ==
    /\ api_pc = "via_page"
    /\ api.i < Tries(api.api_retry)
    /\ \E result \in AttemptResults :
         LET calls == Append(api.calls, [fn |-> "fetch_get_pc_via_page", i |-> api.i,
                                         n |-> 1, result |-> result])
         IN  IF result = "data"
             THEN /\ api_pc' = "returned"
                  /\ api' = [api EXCEPT !.calls = calls, !.ret = "payload"]
             ELSE IF api.i + 1 < Tries(api.api_retry)
             THEN /\ api_pc' = "via_page"
                  /\ api' = [api EXCEPT !.calls = calls, !.i = @ + 1,
                                        !.sleeps = @ + 1]
             ELSE /\ api_pc' = "returned"
                  /\ api' = [api EXCEPT !.calls = calls, !.ret = "None"]
    /\ UNCHANGED <<pc, input_dir, input_dir_exists, stale, gt, output_dir_exists, run_vars,
                   file_vars, pure_vars, fb_vars, twin_vars, fix_in, fix_out>>

InitApi ==
    /\ pc = "idle"
    /\ api_pc = "direct"
    /\ \E api_retry \in (0 - 1)..MaxApiRetry, use_T2_page \in BOOLEAN, driver \in BOOLEAN :
          api = [api_retry |-> api_retry, use_T2_page |-> use_T2_page, driver |-> driver,
                 i |-> 0, calls |-> <<>>, sleeps |-> 0, ret |-> "unset"]
    /\ text_in = <<>>
    /\ tokens_out = <<>>
    /\ seq_in = <<>>
    /\ seq_out = <<>>
    /\ NoFixCall
    /\ InitBlank

NextApi == ApiDirectAttempt \/ ApiViaPageAttempt

SpecApi == InitApi /\ [][NextApi]_vars

(***************************************************************************)
(* run_pipeline called twice on the same folders with the same readings    *)
(* and OCR outcomes, and with two values of gt                             *)
(***************************************************************************)

\* what one loop iteration received: the probe reading, the number of calls
\* that were made, the exceptions, the recognition result
StepInput(call, blocks0, blocks1) ==
    [rss |-> call.rss, loads |-> Len(call.loads), reads |-> Len(call.reads),
     oom |-> call.oom, raised |-> call.raised, ap |-> call.ap,
     block |-> IF Len(blocks1) > Len(blocks0) THEN blocks1[Len(blocks1)].block ELSE <<>>]

\* what one loop iteration did: the image, the tier, the calls, the outcome
StepVisit(call) ==
    [name |-> call.name, edge |-> call.edge, detail |-> call.detail,
     loads |-> call.loads, reads |-> call.reads, status |-> call.status]

\* what a run leaves behind
Outcome ==
    [pc |-> pc, images |-> images, idx |-> idx, failed |-> failed,
     model_found_early |-> model_found_early, model_writes |-> model_writes,
     blocks_written |-> blocks_written, f_merged |-> f_merged, f_csv |-> f_csv,
     f_log |-> f_log, f_model |-> f_model, f_failed |-> f_failed, f_score |-> f_score]

\* at most MaxRerunImages image files in the folder that is read twice
MaxRerunImages == 2

RerunFiles == << <<"B",".","P","N","G">>, <<"a",".","j","p","g">>,
                <<"M","o","d","e","l",".","t","i","f">>, <<"e",".","j","p","e","g">> >>

\* the folders holding the first n of these files
RerunDirs == { {RerunFiles[i] : i \in 1..n} : n \in 0..MaxRerunImages }

\* tracemalloc reports the same peak whenever it is read
SteadyPeak == peak_py_mb_overall' \in {peak_py_mb_overall, 1}

TwoBegin == Begin /\ UNCHANGED twin_vars

\* an iteration of the first run; what it received is kept
TwoProcessFirst ==
    /\ run = 1
    /\ ProcessImage
    /\ SteadyPeak
    /\ trace' = Append(trace, [input |-> StepInput(last', blocks_written, blocks_written'),
                               visit |-> StepVisit(last')])
    /\ UNCHANGED <<run, run1>>

\* an iteration of the second run receives what the same iteration of the
\* first run received
TwoProcessSecond ==
    /\ run = 2
    /\ ProcessImage
    /\ SteadyPeak
    /\ idx + 1 <= Len(trace) =>
           StepInput(last', blocks_written, blocks_written') = trace[idx + 1].input
    /\ UNCHANGED twin_vars

TwoFinalize == Finalize /\ SteadyPeak /\ UNCHANGED twin_vars

\* the first run has returned: its outcome is kept, the output folder is put
\* back as it was and run_pipeline is called with another gt
Rerun ==
    /\ run = 1
    /\ pc \in {"done", "aborted"}
    /\ run' = 2
    /\ run1' = Outcome
    /\ \E g \in GtValues \ {gt} : gt' = g
    /\ pc' = "call"
    /\ output_dir_exists' = stale
    /\ f_merged' = (IF stale THEN StaleMerged ELSE NoFile)
    /\ f_csv'    = (IF stale THEN StaleCsv ELSE NoFile)
    /\ f_log'    = (IF stale THEN StaleLog ELSE NoFile)
    /\ f_model'  = (IF stale THEN StaleModel ELSE NoFile)
    /\ f_failed' = (IF stale THEN StaleFailed ELSE NoFile)
    /\ f_score'  = (IF stale THEN StaleScore ELSE NoFile)
    /\ images' = <<>>
    /\ idx' = 0
    /\ merged_so_far' = <<>>
    /\ model_found_early' = None
    /\ failed' = <<>>
    /\ peak_py_mb_overall' = 0
    /\ tracing' = FALSE
    /\ reader' = 0
    /\ last' = NoCall
    /\ model_writes' = <<>>
    /\ blocks_written' = <<>>
    /\ UNCHANGED <<input_dir, input_dir_exists, stale, trace, pure_vars, fb_vars, call_vars>>

InitTwoRuns ==
    /\ pc = "call"
    /\ input_dir_exists = TRUE
    /\ input_dir \in RerunDirs
    /\ NoFallback
    /\ NoTwin
    /\ NoFixCall
    /\ NoApiCall
    /\ stale = TRUE                      \* the output folder holds an earlier run
    /\ gt \in GtValues
    /\ output_dir_exists = stale
    /\ f_merged = IF stale THEN StaleMerged ELSE NoFile
    /\ f_csv    = IF stale THEN StaleCsv ELSE NoFile
    /\ f_log    = IF stale THEN StaleLog ELSE NoFile
    /\ f_model  = IF stale THEN StaleModel ELSE NoFile
    /\ f_failed = IF stale THEN StaleFailed ELSE NoFile
    /\ f_score  = IF stale THEN StaleScore ELSE NoFile
    /\ images = <<>>
    /\ idx = 0
    /\ merged_so_far = <<>>
    /\ model_found_early = None
    /\ failed = <<>>
    /\ peak_py_mb_overall = 0
    /\ tracing = FALSE
    /\ reader = 0
    /\ last = NoCall
    /\ model_writes = <<>>
    /\ blocks_written = <<>>
    /\ text_in = <<>>
    /\ tokens_out = <<>>
    /\ seq_in = <<>>
    /\ seq_out = <<>>

NextTwoRuns ==
    \/ TwoBegin
    \/ TwoProcessFirst
    \/ TwoProcessSecond
    \/ TwoFinalize
    \/ Rerun

SpecTwoRuns == InitTwoRuns /\ [][NextTwoRuns]_vars

(***************************************************************************)
(* Properties                                                              *)
(***************************************************************************)
\* the merged text after the first n blocks written to merged_ocr.txt
MergedUpTo(n) == Concat([i \in 1..n |-> blocks_written[i].block])

\* rows of images_ocr.csv after the header row
CsvRows == SubSeq(f_csv.data, 2, Len(f_csv.data))

\* C1: when the block of image k is the first after which extraction over the
\* merged text is non-empty, exactly the first k images of the scan order have
\* been visited, models_found.txt was written right after image k and before
\* finalization, and no image after k is visited or given a csv row
C1_EarlyStopAtFirstHit ==
    \A n \in 1..Len(blocks_written) :
        (/\ extract_models_from_text(MergedUpTo(n)) # <<>>
         /\ \A m \in 1..(n - 1) : extract_models_from_text(MergedUpTo(m)) = <<>>)
        => LET k == blocks_written[n].idx
               tokens == extract_models_from_text(MergedUpTo(n))
           IN  /\ n = Len(blocks_written)
               /\ idx = k
               /\ pc \in {"stopped", "done"}
               /\ last.name = images[k]
               /\ last.status = "stop"
               /\ model_writes = << [at |-> "early", idx |-> k, tokens |-> tokens] >>
               /\ f_model.exists
               /\ ReadText(f_model.data) = HeaderLine \o TokenLines(tokens)
               /\ \A r \in DOMAIN CsvRows : CsvRows[r][1] < k

\* a run over three images that stopped at the second one
C1_Witness ==
    /\ pc = "done"
    /\ Len(images) = 3
    /\ idx = 2
    /\ model_found_early = <<"A","B","-","1">>
    /\ Len(CsvRows) = 1

\* C2: models_found.txt is written exactly once per run over a non-empty image
\* set, at the early stop (header and tokens) or at finalization (header and
\* tokens, or the no-token line), never at both
C2_ResultWrittenOnce ==
    /\ Len(model_writes) <= 1
    /\ pc \in {"stopped", "done"} => Len(model_writes) = 1
    /\ pc = "scan" => Len(model_writes) = 0 /\ ~f_model.exists
    /\ \A w \in DOMAIN model_writes :
          /\ f_model.exists
          /\ model_writes[w].at = "early" =>
                /\ model_writes[w].tokens # <<>>
                /\ ReadText(f_model.data) = HeaderLine \o TokenLines(model_writes[w].tokens)
          /\ model_writes[w].at = "final" =>
                /\ pc = "done"
                /\ ReadText(f_model.data) =
                      IF model_writes[w].tokens # <<>>
                      THEN HeaderLine \o TokenLines(model_writes[w].tokens)
                      ELSE NoTokenLine

\* a finished run that stopped early in a directory that held stale files
C2_Witness ==
    /\ pc = "done"
    /\ stale
    /\ Len(model_writes) = 1
    /\ model_writes[1].at = "early"

\* lines of a text file: the pieces that end with a newline
RECURSIVE LinesOf(_, _)
LinesOf(t, from) ==
    LET nl == FirstNewline(t, from, Len(t))
    IN  IF from > Len(t) THEN <<>>
        ELSE IF nl = 0 THEN <<SubSeq(t, from, Len(t))>>
        ELSE <<SubSeq(t, from, nl - 1)>> \o LinesOf(t, nl + 1)

\* C3: when a run ends without early stop, the tokens written at finalization
\* are the extraction over the concatenation of all blocks written to
\* merged_ocr.txt, and extracting again from the file gives the same tokens
C3_RunCompleteness ==
    (pc = "done" /\ model_found_early = None) =>
        /\ Len(model_writes) = 1
        /\ model_writes[1].at = "final"
        /\ model_writes[1].tokens = extract_models_from_text(MergedUpTo(Len(blocks_written)))
        /\ f_model.exists
        /\ Tail(LinesOf(ReadText(f_model.data), 1)) = model_writes[1].tokens
        /\ extract_models_from_text(ReadText(f_merged.data)) = model_writes[1].tokens

\* a run over three images that wrote two blocks and did not stop early
C3_Witness ==
    /\ pc = "done"
    /\ model_found_early = None
    /\ Len(images) = 3
    /\ Len(blocks_written) = 2
    /\ Len(failed) = 1

\* number of positions of a list that hold v
Count(v, seq) == Cardinality({i \in DOMAIN seq : seq[i] = v})

\* the MemoryError of lines 247-248 was the only exception raised for the
\* image visited last: the retry of lines 250-255 went through
RecoveredByRetry == last.oom /\ last.detail = 1 /\ last.raised = 1

\* C4 as claimed: every image for which an exception was raised is the last
\* entry of the failure list once it has been handled
C4_EveryRaiseIsRecorded ==
    (last.status # "none" /\ last.raised > 0) =>
        /\ failed # <<>>
        /\ failed[Len(failed)] = last.name

\* C4 amended: an image for which an exception was raised is appended to the
\* failure list exactly once and the scan goes on, unless the only exception
\* was a MemoryError in the post-processing of PRIMARY-tier results and the
\* retry went through, and then the image is no failure; no exception leaves
\* run_pipeline
C4_ImageFailureNotFatal ==
    /\ pc # "raised"
    /\ last.status # "none" =>
          /\ last.name = images[idx]
          /\ (last.raised > 0 /\ ~RecoveredByRetry) =>
                /\ last.status = "failed"
                /\ failed # <<>>
                /\ failed[Len(failed)] = last.name
                /\ pc \in {"scan", "done"}
          /\ (last.raised = 0 \/ RecoveredByRetry) =>
                /\ last.status \in {"ok", "stop"}
                /\ \A i \in DOMAIN failed : failed[i] # last.name
    /\ \A i \in DOMAIN failed :
          /\ Count(failed[i], failed) = 1
          /\ \E k \in 1..idx : images[k] = failed[i]
    /\ \A i, j \in DOMAIN failed :
          i < j => \E a, b \in 1..idx : a < b /\ images[a] = failed[i] /\ images[b] = failed[j]

\* the first and the last image failed, the one between was recognized
C4_Witness ==
    /\ pc = "done"
    /\ Len(images) = 3
    /\ failed = <<images[1], images[3]>>
    /\ Len(CsvRows) = 1
    /\ last.status = "failed"
    /\ last.raised = 2

C6_TierFromReadingAlone ==
    (last.status # "none" /\ last.rss >= 0) =>
        /\ last.rss >= 2000 =>
              /\ last.edge = 832 /\ last.detail = 0
              /\ last.loads[1] = 832
              /\ \A i \in DOMAIN last.reads : last.reads[i] = 0
        /\ last.rss < 2000 =>
              /\ last.edge = 1000 /\ last.detail = 1
              /\ last.loads[1] = 1000
              /\ Len(last.reads) >= 1 => last.reads[1] = 1

\* a third image at primary tier after a failed image and a recognized one,
\* with the traced peak at its highest value
C6_Witness ==
    /\ idx = 3
    /\ last.rss = 1500
    /\ last.detail = 1
    /\ last.status = "ok"
    /\ Len(failed) = 1
    /\ Len(CsvRows) = 2
    /\ CsvRows[1][4] = 0
    /\ CsvRows[1][3] > 0
    /\ peak_py_mb_overall = 2

\* C7: a MemoryError raised while the results of a PRIMARY-tier image are
\* post-processed leads to exactly one retry at long edge 832 and detail 0
\* with confidence 0; a failing retry makes the image a failure and the scan
\* goes on; no image is retried twice and no FALLBACK-tier image is retried
C7_OneRetryAfterOom ==
    last.status # "none" =>
        /\ Len(last.loads) <= 2
        /\ Len(last.reads) <= 2
        /\ (last.oom /\ last.detail = 1) =>
              /\ last.loads = <<1000, 832>>
              /\ last.reads \in { <<1>>, <<1, 0>> }
              /\ last.status \in {"ok", "stop"} => last.reads = <<1, 0>> /\ last.ap = 0
              /\ last.status = "failed" =>
                    /\ failed # <<>>
                    /\ failed[Len(failed)] = last.name
                    /\ pc \in {"scan", "done"}
        /\ ~last.oom => Len(last.loads) = 1 /\ Len(last.reads) <= 1
        /\ last.detail = 0 => Len(last.loads) = 1 /\ Len(last.reads) <= 1

\* a retried image whose retry was recognized and did not stop the run
C7_Witness ==
    /\ last.oom
    /\ last.detail = 1
    /\ last.status = "ok"
    /\ last.reads = <<1, 0>>
    /\ Len(CsvRows) >= 1
    /\ CsvRows[Len(CsvRows)][3] > 0
    /\ CsvRows[Len(CsvRows)][4] = 0

\* C8: the order given by _interleave_ends and list_images is a permutation
\* of the sorted input of the same length; for at most one path it is the
\* sorted input
C8_InterleavePermutation ==
    /\ pc = "interleave_done" =>
          /\ Len(seq_out) = Len(seq_in)
          /\ \A v \in Range(seq_in) \cup Range(seq_out) : Count(v, seq_out) = Count(v, seq_in)
          /\ Len(seq_in) <= 1 => seq_out = seq_in
    /\ pc = "list_done" =>
          LET eligible == {f \in input_dir : IsImageName(f)}
          IN  /\ Len(images) = Cardinality(eligible)
              /\ Range(images) = eligible
              /\ \A f \in eligible : Count(f, images) = 1
              /\ Len(images) <= 1 => \A f \in eligible : images = <<f>>

\* five paths, reordered
C8_Witness ==
    /\ pc = "interleave_done"
    /\ seq_in = << <<"a">>, <<"a">>, <<"b">>, <<"c">>, <<"c">> >>
    /\ seq_out = << <<"a">>, <<"c">>, <<"a">>, <<"c">>, <<"b">> >>

\* a token ends, ignoring case, in one of the unit suffixes
EndsInUnit(t) ==
    \E u \in { <<"m","m">>, <<"c","m">>, <<"m","a","h">>, <<"w">>, <<"v">>,
               <<"h","z">>, <<"k","g">> } : EndsWith(LowerStr(t), u)

\* C9: no returned token ends, ignoring case, in a unit suffix, and none is,
\* in upper case, one of ABS, PVC, PP
C9_NoUnitNoMaterial ==
    pc = "extract_done" =>
        \A i \in DOMAIN tokens_out :
            /\ ~EndsInUnit(tokens_out[i])
            /\ UpperStr(tokens_out[i]) \notin { <<"A","B","S">>, <<"P","V","C">>, <<"P","P">> }

\* a unit-like window followed by a window with a model token
C9_Witness ==
    /\ pc = "extract_done"
    /\ text_in = <<"u578b","u865f","5","m","m","\n","\n","u578b","u865f","X","9">>
    /\ tokens_out = << <<"X","9">> >>

\* the token a window contributes, <<>> when it contributes none
Candidate(ctx) ==
    LET t == TokenSearch(ctx)
    IN  IF t = <<>> \/ NegUnitSearch(t) \/ UpperStr(t) \in NEG_MAT_SET
        THEN <<>> ELSE t

\* C10: the result holds no token twice, holds exactly the tokens the windows
\* yield, and lists them in the order of the first window that yields each
C10_OrderedNoDuplicates ==
    pc = "extract_done" =>
        LET ctxs == CtxFindAll(text_in, 1)
            first(t) == CHOOSE w \in DOMAIN ctxs :
                           /\ Candidate(ctxs[w]) = t
                           /\ \A v \in 1..(w - 1) : Candidate(ctxs[v]) # t
        IN  /\ \A i, j \in DOMAIN tokens_out : i # j => tokens_out[i] # tokens_out[j]
            /\ Range(tokens_out) = {Candidate(ctxs[w]) : w \in DOMAIN ctxs} \ {<<>>}
            /\ \A i, j \in DOMAIN tokens_out : i < j => first(tokens_out[i]) < first(tokens_out[j])

\* two windows yield the same token
C10_Witness ==
    /\ pc = "extract_done"
    /\ text_in = <<"u578b","u865f","X","9","\n","\n","u578b","u865f","X","9">>
    /\ tokens_out = << <<"X","9">> >>

\* the six artifact files are as they were before the call
FilesUntouched ==
    /\ f_merged = (IF stale THEN StaleMerged ELSE NoFile)
    /\ f_csv    = (IF stale THEN StaleCsv ELSE NoFile)
    /\ f_log    = (IF stale THEN StaleLog ELSE NoFile)
    /\ f_model  = (IF stale THEN StaleModel ELSE NoFile)
    /\ f_failed = (IF stale THEN StaleFailed ELSE NoFile)
    /\ f_score  = (IF stale THEN StaleScore ELSE NoFile)

\* C13: when the enumeration yields no image the call returns with every
\* artifact file as it was, the output directory made, and neither the OCR
\* engine nor the profiler started
C13_EmptyFolderAborts ==
    (pc \in {"call", "scan", "stopped", "done", "aborted"} /\ list_images(input_dir) = <<>>) =>
        /\ pc \in {"call", "aborted"}
        /\ FilesUntouched
        /\ reader = 0
        /\ ~tracing
        /\ idx = 0
        /\ pc = "aborted" => output_dir_exists

\* the folder holds one file that is no image, the output directory holds
\* the files of an earlier run
C13_Witness ==
    /\ pc = "aborted"
    /\ input_dir = { <<"c",".","t","x","t">> }
    /\ stale
    /\ f_model = StaleModel
    /\ output_dir_exists

\* C14: when the input folder does not exist the process ends at the test of
\* resolve_paths_from_defaults: run_pipeline is not called, so list_images is
\* not invoked, no engine is made, no image visited and no artifact written
C14_MissingInputIsFatal ==
    ~input_dir_exists =>
        /\ pc \in {"load", "exited"}
        /\ images = <<>>
        /\ idx = 0
        /\ reader = 0
        /\ ~tracing
        /\ FilesUntouched

\* the process has ended on a missing input folder
C14_Witness ==
    /\ pc = "exited"
    /\ ~input_dir_exists
    /\ output_dir_exists
    /\ reader = 0

\* C11: for the text "[name]\n<label>: T\n\n" with T of 2 to 24 token
\* characters, no unit in T, T no material and no label in the file name,
\* the result is the one token T
C11_OneBlockOneToken ==
    pc = "extract_done" =>
        LET nl   == FirstNewline(text_in, 1, Len(text_in))
            name == SubSeq(text_in, 2, nl - 2)
            T    == SubSeq(text_in, nl + 1 + Len(LabelText), Len(text_in) - 2)
        IN  ( /\ nl > 2
              /\ text_in = Block(name, LabelText \o T)
              /\ Len(T) \in TokenMinLen..TokenMaxLen
              /\ \A i \in DOMAIN T : T[i] \in MODEL_TOKEN_CHARS
              /\ ~NegUnitSearch(T)
              /\ UpperStr(T) \notin NEG_MAT_SET
              /\ FirstKeyword(name, 1, Len(name)) = 0 )
            => tokens_out = <<T>>

\* the example of the claim
C11_Witness ==
    /\ pc = "extract_done"
    /\ text_in = Block(<<"a",".","j","p","g">>, LabelText \o <<"A","B","C","-","1","2","3">>)
    /\ tokens_out = << <<"A","B","C","-","1","2","3">> >>

\* the leftmost longest run of 2 to 24 token characters of a window, <<>>
\* when the window holds none
FirstMatch(ctx) ==
    LET isTok(i) == i \in DOMAIN ctx /\ ctx[i] \in MODEL_TOKEN_CHARS
        starts   == {i \in DOMAIN ctx : isTok(i) /\ isTok(i + 1)}
    IN  IF starts = {} THEN <<>>
        ELSE LET i == CHOOSE a \in starts : \A b \in starts : a <= b
                 n == CHOOSE k \in 2..24 :
                         /\ \A j \in i..(i + k - 1) : isTok(j)
                         /\ (k = 24 \/ ~isTok(i + k))
             IN  SubSeq(ctx, i, i + n - 1)

\* the first match of the window is unit-like or a material
FirstMatchRejected(ctx) ==
    LET t == FirstMatch(ctx)
    IN  t # <<>> /\ (NegUnitSearch(t) \/ UpperStr(t) \in NEG_MAT_SET)

\* C12: every returned token is the first match of a window whose first match
\* is neither unit-like nor a material; a window whose first match is rejected
\* gives nothing, whatever follows the match in it
C12_RejectedWindowGivesNothing ==
    pc = "extract_done" =>
        LET ctxs == CtxFindAll(text_in, 1)
        IN  /\ \A i \in DOMAIN tokens_out :
                  \E w \in DOMAIN ctxs :
                      /\ ~FirstMatchRejected(ctxs[w])
                      /\ FirstMatch(ctxs[w]) = tokens_out[i]
            /\ (\A w \in DOMAIN ctxs : FirstMatchRejected(ctxs[w])) => tokens_out = <<>>

\* one window: the label, the unit-like 5mm, then X9, which matches the token
\* grammar
C12_Witness ==
    /\ pc = "extract_done"
    /\ text_in = <<"u578b","u865f",":"," ","5","m","m",":"," ","X","9">>
    /\ CtxFindAll(text_in, 1) = <<text_in>>
    /\ tokens_out = <<>>

\* positions in the scan order of the images that have a block in the merged
\* text file, in the order of the blocks
RecognizedIdx == [i \in DOMAIN blocks_written |-> blocks_written[i].idx]

\* position of the image that triggered early stop, 0 when there is none
StopIdx ==
    IF \E i \in DOMAIN model_writes : model_writes[i].at = "early"
    THEN model_writes[CHOOSE i \in DOMAIN model_writes : model_writes[i].at = "early"].idx
    ELSE 0

\* C15: during and after the scan the rows of the per-image log are, in scan
\* order, the recognized images other than the one that triggered early stop;
\* every visited image is exactly one of a row, a failure and the stop image
C15_RowsForRecognizedOnly ==
    pc \in {"scan", "stopped", "done"} =>
        LET ok == SelectSeq(RecognizedIdx, LAMBDA k : k # StopIdx)
        IN  /\ Len(CsvRows) = Len(ok)
            /\ \A i \in DOMAIN CsvRows :
                  /\ CsvRows[i][1] = ok[i]
                  /\ CsvRows[i][2] = images[ok[i]]
                  /\ \A j \in DOMAIN failed : failed[j] # CsvRows[i][2]
                  /\ CsvRows[i][1] <= idx
                  /\ StopIdx # 0 => CsvRows[i][1] < StopIdx
            /\ \A i, j \in DOMAIN CsvRows : i < j => CsvRows[i][1] < CsvRows[j][1]
            /\ Len(CsvRows) + Len(failed) + (IF StopIdx # 0 THEN 1 ELSE 0) = idx

\* a recognized image, a failed image, then the image that stops the scan
C15_Witness ==
    /\ pc = "done"
    /\ idx = 3
    /\ Len(CsvRows) = 1
    /\ CsvRows[1][1] = 1
    /\ failed = <<images[2]>>
    /\ StopIdx = 3

\* out is a0, a(n-1), a1, a(n-2), ... of a; positions are counted from 0 in
\* the claim and from 1 here
EndsInward(a, out) ==
    /\ Len(out) = Len(a)
    /\ \A p \in 0..(Len(a) - 1) :
          out[p + 1] = IF p % 2 = 0 THEN a[(p \div 2) + 1]
                                    ELSE a[Len(a) - ((p - 1) \div 2)]

\* C19: _interleave_ends puts a(k) at position 2k and a(n-1-k) at position
\* 2k+1; list_images gives that order of the file names that end, in lower
\* case, in an image extension, sorted by code point
C19_EndsInwardOrder ==
    /\ pc = "interleave_done" => EndsInward(seq_in, seq_out)
    /\ pc = "list_done" =>
          \E a \in [1..Len(images) -> input_dir] :
              /\ \A i, j \in DOMAIN a : i < j => StrLess(a[i], a[j])
              /\ Range(a) = {f \in input_dir :
                                \E e \in exts : EndsWith(LowerStr(f), e)}
              /\ EndsInward(a, images)

\* four image files, one of them with an upper-case extension, and one file
\* that is no image
C19_Witness ==
    /\ pc = "list_done"
    /\ input_dir = FileUniverse
    /\ images = << <<"B",".","P","N","G">>, <<"e",".","j","p","e","g">>,
                   <<"M","o","d","e","l",".","t","i","f">>, <<"a",".","j","p","g">> >>

IsPrefixOf(a, b) == Len(a) <= Len(b) /\ SubSeq(b, 1, Len(a)) = a

\* t is "[name]\n", a text and "\n\n"
IsBlockOf(name, t) ==
    LET text == SubSeq(t, Len(name) + 4, Len(t) - 2)
    IN  /\ Len(t) >= Len(name) + 5
        /\ t = <<"[">> \o name \o <<"]", "\n">> \o text \o <<"\n", "\n">>

\* between the start of the scan and the end of the run the buffer is what
\* the merged text file holds, and it is one block for every visited image
\* that did not fail, in scan order
C20_State ==
    pc \in {"scan", "stopped", "done"} =>
        /\ ReadText(f_merged.data) = merged_so_far
        /\ merged_so_far = MergedUpTo(Len(blocks_written))
        /\ Len(blocks_written) = idx - Len(failed)
        /\ \A i \in DOMAIN blocks_written :
              /\ blocks_written[i].idx \in 1..idx
              /\ IsBlockOf(images[blocks_written[i].idx], blocks_written[i].block)
              /\ \A j \in DOMAIN failed : failed[j] # images[blocks_written[i].idx]
        /\ \A i, j \in DOMAIN blocks_written :
              i < j => blocks_written[i].idx < blocks_written[j].idx

\* one step: the buffer keeps what it held; the visit of an image adds one
\* block of that image when the image is recognized and nothing when it fails
C20_Step ==
    /\ IsPrefixOf(merged_so_far, merged_so_far')
    /\ merged_so_far' # merged_so_far =>
          /\ idx' = idx + 1
          /\ last'.status \in {"ok", "stop"}
          /\ IsBlockOf(images[idx'],
                       SubSeq(merged_so_far', Len(merged_so_far) + 1, Len(merged_so_far')))
    /\ (idx' = idx + 1 /\ last'.status \in {"ok", "stop"}) => merged_so_far' # merged_so_far
    /\ (idx' = idx + 1 /\ last'.status = "failed") => merged_so_far' = merged_so_far

\* C20: the merged text only grows, by one block per recognized image (the
\* one that triggers early stop included) and by nothing for a failed image,
\* and the buffer in memory is the content of the merged text file
C20_MergedTextGrows == []C20_State /\ [][C20_Step]_vars

\* two blocks around a failed image, the second block stops the scan
C20_Witness ==
    /\ pc = "stopped"
    /\ idx = 3
    /\ Len(blocks_written) = 2
    /\ blocks_written[1].idx = 1
    /\ blocks_written[2].idx = 3
    /\ failed = <<images[2]>>
    /\ ReadText(f_merged.data) = merged_so_far
    /\ merged_so_far = blocks_written[1].block \o blocks_written[2].block

\* the steps of the controller: INIT is pc = "call", SCANNING pc = "scan",
\* STOPPED_EARLY pc = "stopped", EXHAUSTED pc = "scan" with every image
\* visited, FINALIZED pc = "done"
C16_Step ==
    /\ pc = "call" => pc' \in {"scan", "aborted"}
    /\ (pc = "call" /\ list_images(input_dir) # <<>>) => pc' = "scan"
    /\ pc = "scan" => pc' \in {"scan", "stopped", "done"}
    /\ (pc = "scan" /\ pc' = "scan") => idx' = idx + 1
    /\ (pc = "scan" /\ pc' = "stopped") => (idx' = idx + 1 /\ last'.status = "stop")
    /\ (pc = "scan" /\ pc' = "done") => (idx = Len(images) /\ model_found_early = None)
    /\ pc = "stopped" => pc' = "done"
    /\ pc # "done"
    /\ ( \/ (f_score' # f_score /\ f_score'.exists)
         \/ (f_failed' # f_failed /\ f_failed'.exists)
         \/ (tracing /\ ~tracing') ) =>
          (pc \in {"scan", "stopped"} /\ pc' = "done")

\* once finalized, the run went through exactly one of STOPPED_EARLY and
\* EXHAUSTED and the finalization has acted
C16_State ==
    pc = "done" =>
        /\ (model_found_early # None) # (model_found_early = None /\ idx = Len(images))
        /\ f_model.exists
        /\ f_score.exists
        /\ ~tracing
        /\ failed # <<>> => f_failed = FileOf(WriteText(Join(<<"\n">>, failed)))

\* C16: a run with at least one image goes from INIT to SCANNING, from there
\* to STOPPED_EARLY or to EXHAUSTED, from either to FINALIZED, and it gets
\* there; the finalization acts once, in the step that ends the run
C16_RunReachesFinalized ==
    /\ [][C16_Step]_vars
    /\ []C16_State
    /\ (pc = "call" /\ list_images(input_dir) # <<>>) ~> (pc = "done")

\* finalized after the scan order was exhausted, with a failure and a
\* recognized image on the way
C16_Witness ==
    /\ pc = "done"
    /\ model_found_early = None
    /\ idx = Len(images)
    /\ idx = 3
    /\ Len(failed) = 1
    /\ Len(CsvRows) = 2
    /\ f_score.exists
    /\ ~tracing

\* the non-empty stripped lines of models_found.txt after its first line
CandidateLines(f) ==
    LET ls == LinesOf(ReadText(f.data), 1)
    IN  SelectSeq([i \in 1..(Len(ls) - 1) |-> Strip(ls[i + 1])], LAMBDA l : l # <<>>)

\* models_found.txt is missing, empty, or holds nothing after its first line
NoCandidate(f) == ~f.exists \/ CandidateLines(f) = <<>>

\* the cases the claim lists for the marker
C18_ListedCase ==
    \/ ~fb.driver \/ ~fb.referer_is_str \/ ~fb.work_root_is_str
    \/ ~fb.a_ok
    \/ ~fb.b_ok
    \/ fb.exit \in {"no_urls", "none_saved", "b_err"}
    \/ NoCandidate(f_model)

\* C18 as claimed: the marker in the listed cases, the first line after the
\* header, corrected, in every other case
C18_MarkerOnlyInListedCases ==
    fb_pc = "returned" =>
        ret = IF C18_ListedCase THEN NotFound
              ELSE _confusion_whitelist_fix(CandidateLines(f_model)[1])

\* C18 amended: the call returns; it returns the marker in the listed cases
\* and also when the folders cannot be prepared, when collecting or
\* downloading the images raises and when reading the result file raises; in
\* every other case it returns the first line after the header, corrected,
\* which is the first token run_pipeline has written when run_pipeline wrote
\* the file
C18_FallbackResult ==
    /\ fb_pc \in {"none", "args", "dirs", "A", "B", "B_running", "returned"}
    /\ fb_pc = "returned" =>
          /\ ret # <<>>
          /\ (~fb.driver \/ ~fb.referer_is_str \/ ~fb.work_root_is_str) <=> fb.exit = "bad_args"
          /\ (fb.exit # "bad_args" /\ ~fb.a_ok) <=> fb.exit = "a_unavailable"
          /\ (fb.exit \notin {"bad_args", "a_unavailable"} /\ ~fb.b_ok) <=> fb.exit = "b_unavailable"
          /\ fb.exit \in {"bad_args", "a_unavailable", "b_unavailable", "io_fail", "a_err",
                          "no_urls", "none_saved", "b_err", "parse_fail"} => ret = NotFound
          /\ fb.exit \in {"bad_args", "a_unavailable", "b_unavailable", "io_fail", "a_err",
                          "no_urls", "none_saved", "b_err"} => (pc \in {"idle", "raised"} /\ reader = 0)
          /\ fb.exit \in {"read", "parse_fail"} => pc \in {"done", "aborted"}
          /\ fb.exit = "read" =>
                /\ ret = IF NoCandidate(f_model) THEN NotFound
                         ELSE _confusion_whitelist_fix(CandidateLines(f_model)[1])
                /\ model_writes # <<>> =>
                      LET tokens == model_writes[Len(model_writes)].tokens
                      IN  ret = IF tokens = <<>> THEN NotFound
                                ELSE _confusion_whitelist_fix(tokens[1])

\* run_pipeline stopped early on a token and the call returns that token
C18_Witness ==
    /\ fb_pc = "returned"
    /\ fb.exit = "read"
    /\ pc = "done"
    /\ model_found_early = <<"A","B","-","1">>
    /\ ret = <<"A","B","-","1">>

\* the second run has returned
SecondReturned == run = 2 /\ pc \in {"done", "aborted"}

\* C17 (state part): when the second run has returned, everything it leaves
\* but the score summary equals what the first run left: the scan order, the
\* index reached, the early-stop token, the merged text, the log rows, the
\* result-token file and its writes, the failure list and its file
C17_State ==
    SecondReturned =>
        \A k \in DOMAIN Outcome \ {"f_score"} : Outcome[k] = run1[k]

\* C17 (step part): every iteration of the second run is an iteration the
\* first run made, on the same image, with the same tier, the same calls and
\* the same outcome
C17_Step ==
    (run = 2 /\ idx' = idx + 1) =>
        /\ idx' <= Len(trace)
        /\ StepVisit(last') = trace[idx'].visit

\* C17: gt does not alter what run_pipeline does
C17_GtNeverAltersBehaviour == []C17_State /\ [][C17_Step]_vars

\* both runs stopped early on the second image after a failure, and their
\* score summaries differ
C17_Witness ==
    /\ SecondReturned
    /\ pc = "done"
    /\ idx = 2
    /\ model_found_early # None
    /\ failed # <<>>
    /\ f_score # run1.f_score

\* the ERR lines of run.log, in the order written
ErrLines == SelectSeq(f_log.data, LAMBDA l : l[1] = "ERR")

\* C21: after a run on a non-empty image set, failed_slices.txt exists
\* exactly when an image of this run failed, and its lines are the names of
\* the failed images in scan order
C21_FailureList ==
    pc = "done" =>
        /\ f_failed.exists <=> ErrLines # <<>>
        /\ f_failed.exists =>
              LinesOf(ReadText(f_failed.data), 1) = [i \in DOMAIN ErrLines |-> ErrLines[i][3]]
        /\ \A i \in DOMAIN ErrLines :
              /\ ErrLines[i][3] = images[ErrLines[i][2]]
              /\ \A j \in DOMAIN ErrLines : i < j => ErrLines[i][2] < ErrLines[j][2]

\* a run over an earlier run's folder in which two images failed
C21_Witness ==
    /\ pc = "done"
    /\ stale
    /\ Len(ErrLines) = 2
    /\ f_failed.exists

\* C22 as claimed: run.log holds one line for every image visited, an OK
\* line for a recognized image and an ERR line for a failed one, the image
\* that triggers the early stop included
C22_OneLogLinePerVisitedImage ==
    pc \in {"scan", "stopped", "done"} =>
        /\ Len(f_log.data) = idx
        /\ \A i \in 1..idx :
              /\ f_log.data[i][2] = i
              /\ f_log.data[i][3] = images[i]
              /\ f_log.data[i][1] = IF \E j \in DOMAIN blocks_written : blocks_written[j].idx = i
                                    THEN "OK" ELSE "ERR"

\* the window that a label at position i of s would open
WindowAt(s, i) == SubSeq(s, i, CtxEnd(s, i, KeywordLenAt(s, i)) - 1)

\* C23 as claimed: every occurrence of a label opens a window of its own, so
\* the token that the window of any occurrence yields is in the result, also
\* when the occurrence lies inside the window of an earlier label
C23_EveryLabelOpensAWindow ==
    pc = "extract_done" =>
        \A i \in 1..Len(text_in) :
            (KeywordLenAt(text_in, i) > 0 /\ Candidate(WindowAt(text_in, i)) # <<>>)
                => Candidate(WindowAt(text_in, i)) \in Range(tokens_out)

\* nothing that the earlier run wrote is left in the six artifact files
NoStaleContent ==
    /\ ~Contains(f_merged.data, OldToken)
    /\ ~Contains(f_model.data, OldToken)
    /\ \A r \in Range(f_csv.data) : r \notin Range(StaleCsv.data) \ {<<"header">>}
    /\ \A l \in Range(f_log.data) : l \notin Range(StaleLog.data)
    /\ ~Contains(f_failed.data, StaleFailed.data)
    /\ f_score # StaleScore

\* C24 as claimed: whenever run_pipeline is called on an output directory
\* that holds the files of an earlier run, nothing of the earlier run is left
\* when the call has returned
C24_StaleAlwaysCleared ==
    (stale /\ pc \in {"aborted", "done"}) => NoStaleContent

\* C24 amended: when the input folder holds an image, the files of an earlier
\* run are cleared before the first image is processed and nothing of the
\* earlier run is in them from then on; when it holds none, the call returns
\* before the clearing and the files are as they were
C24_StaleClearedWhenImagesFound ==
    /\ pc \in {"scan", "stopped", "done"} => NoStaleContent
    /\ pc = "aborted" => FilesUntouched

\* a run over an earlier run's folder ended with no failure: the stale
\* failure list is gone and none was written
C24_Witness ==
    /\ stale
    /\ pc = "done"
    /\ failed = <<>>
    /\ ~f_failed.exists
    /\ model_found_early = None

\* C25 as claimed: a leading "$/" becomes "SY", a leading "$" that no "/"
\* follows becomes "S", a leading "/" becomes "Y", the rest of the token is
\* kept and any other token is returned as it is
C25_LeadingSymbolsRewritten ==
    pc = "fix_done" =>
        fix_out = IF StartsWith(fix_in, <<"$","/">>) THEN <<"S","Y">> \o Drop(fix_in, 2)
                  ELSE IF StartsWith(fix_in, <<"$">>) THEN <<"S">> \o Drop(fix_in, 1)
                  ELSE IF StartsWith(fix_in, <<"/">>) THEN <<"Y">> \o Drop(fix_in, 1)
                  ELSE fix_in

\* the attempts made through fn, in the order made
CallsOf(fn) == SelectSeq(api.calls, LAMBDA c : c.fn = fn)

\* C26: at most tries direct attempts, then at most tries via_page attempts
\* and these only after tries direct attempts without data, with T2 enabled
\* and a driver; an attempt with data is the last one and its payload is
\* returned; None is returned when every attempt allowed has failed; a failed
\* attempt never ends the call with an exception
C26_DirectThenViaPage ==
    api_pc # "none" =>
        LET tries  == 1 + (IF api.api_retry > 0 THEN api.api_retry ELSE 0)
            calls  == api.calls
            direct == CallsOf("fetch_get_pc")
            via    == CallsOf("fetch_get_pc_via_page")
        IN  /\ api_pc \in {"direct", "via_page", "returned"}
            /\ Len(direct) <= tries
            /\ Len(via) <= tries
            /\ \A j \in DOMAIN calls : j <= Len(direct) <=> calls[j].fn = "fetch_get_pc"
            /\ via # <<>> =>
                  /\ Len(direct) = tries
                  /\ \A j \in DOMAIN direct : direct[j].result # "data"
                  /\ api.use_T2_page /\ api.driver
            /\ \A j \in DOMAIN calls : calls[j].result = "data" =>
                  /\ j = Len(calls)
                  /\ api_pc = "returned"
                  /\ api.ret = "payload"
            /\ api_pc = "returned" =>
                  /\ api.ret \in {"payload", "None"}
                  /\ api.ret = "payload" <=> (calls # <<>> /\ calls[Len(calls)].result = "data")
                  /\ api.ret = "None" =>
                        /\ Len(direct) = tries
                        /\ Len(via) = IF api.use_T2_page /\ api.driver THEN tries ELSE 0
            /\ api_pc # "returned" => api.ret = "unset"

\* two direct attempts failed, one of them with an exception, and the second
\* via_page attempt returned the payload
C26_Witness ==
    /\ api_pc = "returned"
    /\ api.ret = "payload"
    /\ api.api_retry = 1
    /\ Len(api.calls) = 4
    /\ api.calls[2].result = "raised"
    /\ api.calls[4].fn = "fetch_get_pc_via_page"

\* the loop was left by the break of line 276
StoppedEarly == \E w \in Range(model_writes) : w.at = "early"

\* C27: when a run has consumed the whole scan order without early stop, the
\* tokens written at finalization are none and models_found.txt holds the
\* no-token line; models_found.txt lists a token exactly when the run stopped
\* early
C27_ExhaustedMeansNoToken ==
    pc = "done" =>
        /\ ~StoppedEarly =>
              /\ idx = Len(images)
              /\ model_writes = << [at |-> "final", idx |-> idx, tokens |-> <<>>] >>
              /\ extract_models_from_text(ReadText(f_merged.data)) = <<>>
              /\ f_model = FileOf(WriteText(NoTokenLine))
        /\ CandidateLines(f_model) # <<>> <=> StoppedEarly
        /\ StoppedEarly <=> model_found_early # None

\* three images were recognized, one of them with a label and a rejected
\* token, and the run ended without early stop
C27_Witness ==
    /\ pc = "done"
    /\ ~StoppedEarly
    /\ Len(blocks_written) = 3
    /\ \E i \in 1..3 : Contains(blocks_written[i].block, <<"5","m","m">>)
    /\ f_model = FileOf(WriteText(NoTokenLine))

\* the positions in the scan order of the images with a row in
\* images_ocr.csv, of the failed images, of the image that triggered the stop
RowIdx  == {CsvRows[i][1] : i \in DOMAIN CsvRows}
ErrIdx  == {ErrLines[i][2] : i \in DOMAIN ErrLines}
StopSet == {w.idx : w \in {v \in Range(model_writes) : v.at = "early"}}

\* C28 (state part): between two images the images visited are the first idx
\* of the scan order, each of them has a row, or is in the failure list, or
\* triggered the early stop, and only one of the three
C28_State ==
    pc \in {"scan", "stopped", "done"} =>
        /\ idx <= Len(images)
        /\ RowIdx \cup ErrIdx \cup StopSet = 1..idx
        /\ RowIdx \cap ErrIdx = {}
        /\ RowIdx \cap StopSet = {}
        /\ ErrIdx \cap StopSet = {}
        /\ Len(CsvRows) + Len(failed) + (IF StoppedEarly THEN 1 ELSE 0) = idx
        /\ Cardinality(RowIdx) = Len(CsvRows)
        /\ Cardinality(ErrIdx) = Len(failed)
        /\ \A i \in DOMAIN CsvRows : CsvRows[i][2] = images[CsvRows[i][1]]
        /\ \A i \in DOMAIN failed : failed[i] = images[ErrLines[i][2]]
        /\ \A i, j \in DOMAIN images : i # j => images[i] # images[j]

\* C28 (step part): the scan order is fixed during the scan and the image
\* visited next is the one that follows the images visited so far
C28_Step ==
    pc \in {"scan", "stopped"} =>
        /\ images' = images
        /\ idx' \in {idx, idx + 1}
        /\ idx' = idx + 1 => (pc = "scan" /\ last'.name = images[idx + 1])

\* C28: every visited image has exactly one outcome and none is visited twice
C28_OneOutcomePerVisitedImage == []C28_State /\ [][C28_Step]_vars

\* the third image triggered the stop after one row and one failure
C28_Witness ==
    /\ pc = "stopped"
    /\ idx = 3
    /\ Len(CsvRows) = 1
    /\ Len(failed) = 1
    /\ StopSet = {3}

\* C29: after a finalized run the candidates recorded in score.log are the
\* tokens listed in models_found.txt, in the same order, whether the run
\* stopped early or consumed the scan order
C29_ScoreCandidatesAreFileTokens ==
    pc = "done" =>
        /\ f_score.exists
        /\ f_model.exists
        /\ f_score.data[1][1] = "CANDIDATES"
        /\ f_score.data[1][2] = CandidateLines(f_model)

\* a run with gt given stopped early on a token after another image
C29_Witness ==
    /\ pc = "done"
    /\ StoppedEarly
    /\ idx = 2
    /\ gt # None
    /\ f_score.data[1][2] = << <<"A","B","-","1">> >>

\* the windows of the text, each without the label that opens it
AfterLabel(ctxs) ==
    [w \in DOMAIN ctxs |-> SubSeq(ctxs[w], KeywordLenAt(ctxs[w], 1) + 1, Len(ctxs[w]))]

\* C30 as claimed: the label keyword is never returned as a token; the token
\* of a window is the first match of the token grammar after the label
C30_LabelIsNeverAToken ==
    pc = "extract_done" =>
        /\ \A t \in Range(tokens_out) : \A k \in DOMAIN CTX_KEYWORDS :
              LowerStr(t) # LowerStr(CTX_KEYWORDS[k])
        /\ tokens_out = ExtractLoop(AfterLabel(CtxFindAll(text_in, 1)), <<>>)
====
